---------------------------- MODULE Spec2Model ----------------------------
(***************************************************************************)
(* 1on1 Mirror: the analysis pipeline of server/app.                       *)
(*                                                                         *)
(*   calculators/speech_analyzer.py            SpeechAnalyzer              *)
(*   calculators/goal_alignment_calculator.py  GoalAlignmentCalculator     *)
(*   calculators/llm_base.py                   LLMBaseCalculator           *)
(*   calculators/coaching_style_calculator.py  CoachingStyleCalculator     *)
(*   calculators/safety_score_calculator.py    SafetyScoreCalculator       *)
(*   formatters/report_formatter.py            ReportFormatter             *)
(*   domain/oneonone/service.py                OneOnOneService             *)
(*   api/v1/endpoints/sessions.py              the two HTTP handlers       *)
(*                                                                         *)
(* Representation.                                                         *)
(*   - A Python str is a sequence of one-character strings, so that len,   *)
(*     lower, strip, count and the regular expression of the keyword       *)
(*     extraction are computed character by character.                     *)
(*   - A float is an IEEE 754 binary64 number [sign, exp, man] and every   *)
(*     operation on floats rounds as the machine does.                     *)
(*   - A time of a transcription is given as a number of tenths of a       *)
(*     second and stands for the float nearest to it, Seconds(t).          *)
(*   - A number of a JSON document is an exact rational <<n, d>> with      *)
(*     d > 0 in lowest terms until a calculation reads it as a float.      *)
(*   - An Optional value is None (the empty tuple) or Some(x) = <<x>>; an  *)
(*     exception is a record [type |-> ..., msg |-> ...].                  *)
(***************************************************************************)
EXTENDS Integers, Sequences, FiniteSets, TLC

\* Optional[T]: None, or Some(x) whose value is x[1]
None == <<>>
Some(x) == <<x>>

(***************************************************************************)
(* Sequences                                                               *)
(***************************************************************************)
Range(s) == { s[i] : i \in 1..Len(s) }

\* s[:n]
Take(s, n) == SubSeq(s, 1, IF n < Len(s) THEN n ELSE Len(s))

\* x in s  (Python list membership)
InSeq(x, s) == \E i \in 1..Len(s) : s[i] = x

\* s.index(x), 0-based, for x in s
IndexOf(x, s) == (CHOOSE i \in 1..Len(s) : s[i] = x /\ \A j \in 1..(i-1) : s[j] # x) - 1

Min2(a, b) == IF a <= b THEN a ELSE b

(***************************************************************************)
(* Exact rationals: the numbers of a JSON document, and sort keys           *)
(***************************************************************************)
Abs(n) == IF n < 0 THEN -n ELSE n

RECURSIVE Gcd(_, _)
Gcd(a, b) == IF b = 0 THEN a ELSE Gcd(b, a % b)

\* n / d in lowest terms with a positive denominator (d # 0)
Rat(n, d) ==
    LET s == IF d < 0 THEN -1 ELSE 1
        g == Gcd(Abs(n), Abs(d))
    IN  <<(s * n) \div g, (s * d) \div g>>

RatInt(n)     == <<n, 1>>
RatLe(a, b)   == a[1] * b[2] <= b[1] * a[2]
RatLt(a, b)   == a[1] * b[2] < b[1] * a[2]
RatGe(a, b)   == RatLe(b, a)
RatGt(a, b)   == RatLt(b, a)

(***************************************************************************)
(* Naturals of any size: the limbs in base 2^15, the least significant      *)
(* first, without a zero limb at the end                                    *)
(***************************************************************************)
LimbBits == 15
LimbBase == 2 ^ LimbBits

Limb(a, i) == IF 1 <= i /\ i <= Len(a) THEN a[i] ELSE 0

RECURSIVE BigNorm(_)
BigNorm(a) ==
    IF a # <<>> /\ a[Len(a)] = 0 THEN BigNorm(SubSeq(a, 1, Len(a) - 1)) ELSE a

\* a natural below 2^31
BigOfInt(n) ==
    BigNorm(<<n % LimbBase, (n \div LimbBase) % LimbBase,
              n \div (LimbBase * LimbBase)>>)

\* a natural below 2^31 as an integer
BigToInt(a) == Limb(a, 1) + LimbBase * (Limb(a, 2) + LimbBase * Limb(a, 3))

\* -1, 0 or 1 as a is below, equal to or above b
BigCmp(a, b) ==
    IF Len(a) # Len(b) THEN (IF Len(a) < Len(b) THEN -1 ELSE 1)
    ELSE LET differ == {i \in 1..Len(a) : a[i] # b[i]}
         IN  IF differ = {} THEN 0
             ELSE LET k == CHOOSE i \in differ : \A j \in differ : j <= i
                  IN  IF a[k] < b[k] THEN -1 ELSE 1

RECURSIVE BigAddFrom(_, _, _, _)
BigAddFrom(a, b, i, carry) ==
    IF i > Len(a) /\ i > Len(b)
    THEN (IF carry = 0 THEN <<>> ELSE <<carry>>)
    ELSE <<(Limb(a, i) + Limb(b, i) + carry) % LimbBase>>
         \o BigAddFrom(a, b, i + 1, (Limb(a, i) + Limb(b, i) + carry) \div LimbBase)

BigAdd(a, b) == BigAddFrom(a, b, 1, 0)

RECURSIVE BigSubFrom(_, _, _, _)
BigSubFrom(a, b, i, borrow) ==
    IF i > Len(a) THEN <<>>
    ELSE IF a[i] - Limb(b, i) - borrow < 0
    THEN <<a[i] - Limb(b, i) - borrow + LimbBase>> \o BigSubFrom(a, b, i + 1, 1)
    ELSE <<a[i] - Limb(b, i) - borrow>> \o BigSubFrom(a, b, i + 1, 0)

\* a - b for a >= b
BigSub(a, b) == BigNorm(BigSubFrom(a, b, 1, 0))

RECURSIVE BigMulSmallFrom(_, _, _, _)
BigMulSmallFrom(a, d, i, carry) ==
    IF i > Len(a) THEN (IF carry = 0 THEN <<>> ELSE <<carry>>)
    ELSE <<(a[i] * d + carry) % LimbBase>>
         \o BigMulSmallFrom(a, d, i + 1, (a[i] * d + carry) \div LimbBase)

\* a * d for a limb d
BigMulSmall(a, d) == IF d = 0 THEN <<>> ELSE BigMulSmallFrom(a, d, 1, 0)

\* a * 2^(15 * k)
BigShiftLimbs(a, k) == IF a = <<>> THEN <<>> ELSE [j \in 1..k |-> 0] \o a

RECURSIVE BigMulFrom(_, _, _)
BigMulFrom(a, b, i) ==
    IF i > Len(b) THEN <<>>
    ELSE BigAdd(BigShiftLimbs(BigMulSmall(a, b[i]), i - 1), BigMulFrom(a, b, i + 1))

BigMul(a, b) == BigMulFrom(a, b, 1)

\* a * 2^k
BigShl(a, k) ==
    LET q == k \div LimbBits
        low == 2 ^ (LimbBits - (k % LimbBits))
        high == 2 ^ (k % LimbBits)
    IN  IF a = <<>> THEN <<>>
        ELSE BigNorm([j \in 1..(Len(a) + q + 1) |->
                        (Limb(a, j - q) % low) * high + (Limb(a, j - q - 1) \div low)])

\* a \div 2^k
BigShr(a, k) ==
    LET q == k \div LimbBits
        low == 2 ^ (k % LimbBits)
        high == 2 ^ (LimbBits - (k % LimbBits))
    IN  IF q >= Len(a) THEN <<>>
        ELSE BigNorm([j \in 1..(Len(a) - q) |->
                        (a[j + q] \div low) + (Limb(a, j + q + 1) % low) * high])

\* the number of bits of a
BigBitLen(a) ==
    IF a = <<>> THEN 0
    ELSE LimbBits * (Len(a) - 1)
         + (CHOOSE n \in 1..LimbBits : a[Len(a)] < 2 ^ n /\ a[Len(a)] >= 2 ^ (n - 1))

\* one step of a long division by d, for r < d * 2^15 and a d whose last limb
\* has its top bit set: the digit r \div d, estimated from the leading limbs
\* and corrected, and the remainder
RECURSIVE BigDivStep(_, _, _)
BigDivTry(r, d, q, p) ==
    IF BigCmp(p, r) <= 0 THEN <<q, BigSub(r, p)>> ELSE BigDivStep(r, d, q - 1)

BigDivStep(r, d, q) == BigDivTry(r, d, q, BigMulSmall(d, q))

BigDigitFrom(r, d, top) ==
    BigDivStep(r, d, IF top < LimbBase - 1 THEN top ELSE LimbBase - 1)

BigDigit(r, d) ==
    IF Len(r) < Len(d) THEN <<0, r>>
    ELSE BigDigitFrom(r, d, (Limb(r, Len(d) + 1) * LimbBase + Limb(r, Len(d)))
                            \div d[Len(d)])

\* the long division n \div d from limb i of n down, with the remainder r of
\* the limbs above: 1 or 0 as a remainder is left or not, then the limbs of
\* the quotient
RECURSIVE BigDivFrom(_, _, _, _)
BigDivNext(n, d, i, step) == Append(BigDivFrom(n, d, i - 1, step[2]), step[1])

BigDivFrom(n, d, i, r) ==
    IF i = 0 THEN <<IF r = <<>> THEN 0 ELSE 1>>
    ELSE BigDivNext(n, d, i, BigDigit(BigNorm(<<n[i]>> \o r), d))

\* the short division n \div d by a limb d, from limb i of n down with the
\* remainder r of the limbs above, with the same result as BigDivFrom
RECURSIVE BigDivSmallFrom(_, _, _, _)
BigDivSmallFrom(n, d, i, r) ==
    IF i = 0 THEN <<IF r = 0 THEN 0 ELSE 1>>
    ELSE Append(BigDivSmallFrom(n, d, i - 1, (r * LimbBase + n[i]) % d),
                (r * LimbBase + n[i]) \div d)

(***************************************************************************)
(* Python's float: an IEEE 754 binary64 number, sign * man * 2^exp with a   *)
(* man of exactly 53 bits; zero has sign 0.  Every operation rounds its     *)
(* exact result to the nearest such number, ties to the even man.           *)
(* Infinities, NaN, subnormal numbers and the sign of zero are left out.    *)
(***************************************************************************)
ManBits == 53

FloatZero == [sign |-> 0, exp |-> 0, man |-> <<>>]

\* bit i of a, the least significant being bit 0
BigBit(a, i) == (Limb(a, i \div LimbBits + 1) \div 2 ^ (i % LimbBits)) % 2

\* some bit of a below bit i is set
BigBitsBelow(a, i) ==
    \/ \E j \in 1..(i \div LimbBits) : Limb(a, j) # 0
    \/ Limb(a, i \div LimbBits + 1) % 2 ^ (i % LimbBits) # 0

\* the float sign * q * 2^e for a q of 53 bits, or of 54 bits after a carry out
\* of the rounding
FloatCarry(sign, q, e) ==
    IF BigBitLen(q) > ManBits
    THEN [sign |-> sign, exp |-> e + 1, man |-> BigShr(q, 1)]
    ELSE [sign |-> sign, exp |-> e, man |-> q]

\* round half to even: the k bits cut from m are above half, or are half and
\* the kept q is odd
FloatRoundsUp(m, k, sticky, q) ==
    /\ BigBit(m, k - 1) = 1
    /\ (sticky \/ BigBitsBelow(m, k - 1) \/ q[1] % 2 = 1)

\* the rounding of an m that has k bits more than a man, q being m \div 2^k
FloatRoundCut(sign, m, e, sticky, k, q) ==
    FloatCarry(sign, IF FloatRoundsUp(m, k, sticky, q) THEN BigAdd(q, <<1>>) ELSE q,
               e + k)

FloatRoundBy(sign, m, e, sticky, k) ==
    IF k <= 0
    THEN [sign |-> sign, exp |-> e + k, man |-> BigShl(m, 0 - k)]
    ELSE FloatRoundCut(sign, m, e, sticky, k, BigShr(m, k))

\* the float nearest to sign * m * 2^e, for a natural m > 0; sticky says that
\* the exact value lies above m * 2^e and below (m + 1) * 2^e
FloatRound(sign, m, e, sticky) ==
    FloatRoundBy(sign, m, e, sticky, BigBitLen(m) - ManBits)

\* float(n) for an int n of less than 31 bits
FloatOfInt(n) ==
    IF n = 0 THEN FloatZero
    ELSE FloatRound(IF n < 0 THEN -1 ELSE 1,
                    BigOfInt(IF n < 0 THEN 0 - n ELSE n), 0, FALSE)

FloatNeg(x) == [x EXCEPT !.sign = 0 - x.sign]

\* -1, 0 or 1 as x < y, x == y or x > y
FloatCmpAbs(x, y) ==
    IF x.exp # y.exp THEN (IF x.exp < y.exp THEN -1 ELSE 1)
    ELSE BigCmp(x.man, y.man)

FloatCmp(x, y) ==
    IF x.sign # y.sign THEN (IF x.sign < y.sign THEN -1 ELSE 1)
    ELSE IF x.sign = 0 THEN 0
    ELSE x.sign * FloatCmpAbs(x, y)

FloatLt(x, y) == FloatCmp(x, y) < 0
FloatLe(x, y) == FloatCmp(x, y) <= 0
FloatGt(x, y) == FloatCmp(x, y) > 0
FloatGe(x, y) == FloatCmp(x, y) >= 0

\* sx * mx * 2^e + sy * my * 2^e, c being -1, 0 or 1 as mx is below, equal to
\* or above my
FloatAddCompared(sx, mx, sy, my, e, c) ==
    IF sx # sy /\ c = 0 THEN FloatZero
    ELSE FloatRound(IF sx = sy \/ c > 0 THEN sx ELSE sy,
                    IF sx = sy THEN BigAdd(mx, my)
                    ELSE IF c > 0 THEN BigSub(mx, my) ELSE BigSub(my, mx),
                    e, FALSE)

FloatAddAligned(sx, mx, sy, my, e) ==
    FloatAddCompared(sx, mx, sy, my, e, BigCmp(mx, my))

\* x + y for x # 0 and y # 0, e being the smaller exp
FloatAddAt(x, y, e) ==
    FloatAddAligned(x.sign, BigShl(x.man, x.exp - e),
                    y.sign, BigShl(y.man, y.exp - e), e)

\* x + y
FloatAdd(x, y) ==
    IF x.sign = 0 THEN y
    ELSE IF y.sign = 0 THEN x
    ELSE FloatAddAt(x, y, IF x.exp < y.exp THEN x.exp ELSE y.exp)

\* x - y
FloatSub(x, y) == FloatAdd(x, FloatNeg(y))

\* the man of x is a limb times 2^38, as is that of every int below 2^15
FloatIsShort(x) == x.sign # 0 /\ x.man[1] = 0 /\ x.man[2] = 0 /\ x.man[3] % 256 = 0

FloatLimb(x) == x.man[3] \div 256 + x.man[4] * 128

\* x * y; a factor with a man of one limb takes one pass
FloatMul(x, y) ==
    IF x.sign = 0 \/ y.sign = 0 THEN FloatZero
    ELSE FloatRound(x.sign * y.sign,
                    IF FloatIsShort(y) THEN BigMulSmall(x.man, FloatLimb(y))
                    ELSE IF FloatIsShort(x) THEN BigMulSmall(y.man, FloatLimb(x))
                    ELSE BigMul(x.man, y.man),
                    IF FloatIsShort(y) \/ FloatIsShort(x)
                    THEN x.exp + y.exp + 38 ELSE x.exp + y.exp,
                    FALSE)

BigDivSmall(n, d) == BigDivSmallFrom(n, d, Len(n), 0)

BigDiv(n, d) == BigDivFrom(n, d, Len(n), <<>>)

\* the float nearest to sign * quotient * 2^e, for the q of a division: 1 or 0
\* as a remainder is left or not, then the limbs of the quotient
FloatRoundQuotient(sign, q, e) == FloatRound(sign, BigNorm(Tail(q)), e, q[1] = 1)

\* x / y for y # 0: the division of man * 2^60 by the limb of y, or the long
\* division of man * 2^67 by man * 2^7, gives a quotient of at least 60 bits
FloatDiv(x, y) ==
    IF x.sign = 0 THEN FloatZero
    ELSE FloatRoundQuotient(
             x.sign * y.sign,
             IF FloatIsShort(y)
             THEN BigDivSmall(BigShiftLimbs(x.man, 4), FloatLimb(y))
             ELSE BigDiv(BigShiftLimbs(BigShl(x.man, 7), 4), BigShl(y.man, 7)),
             IF FloatIsShort(y) THEN x.exp - y.exp - 38 - 60 ELSE x.exp - y.exp - 60)

\* a / b for ints a and b # 0; for a decimal literal a / b, also the float
\* the literal denotes
FloatOfRatio(a, b) == FloatDiv(FloatOfInt(a), FloatOfInt(b))

\* the float of a JSON number n / d
FloatOfRat(r) == FloatOfRatio(r[1], r[2])

\* the integer part of |x| as a natural number
FloatWhole(x) ==
    IF x.exp >= 0 THEN BigShl(x.man, x.exp) ELSE BigShr(x.man, 0 - x.exp)

\* an int() that rounds to the nearest integer
FloatTrunc_Round(x) == IF x.sign = 0 THEN 0 ELSE x.sign * BigToInt(FloatWhole(FloatAdd(x, [sign |-> x.sign, exp |-> -53, man |-> BigShl(<<1>>, 52)])))

\* int(x): the integer part, for an x of less than 31 bits
FloatTrunc(x) == IF x.sign = 0 THEN 0 ELSE x.sign * BigToInt(FloatWhole(x))

FloatMin(x, y) == IF FloatLt(y, x) THEN y ELSE x
FloatMax(x, y) == IF FloatGt(y, x) THEN y ELSE x

\* x += y in a loop: the floats are added one after another, from the start
\* value acc
RECURSIVE FloatSumFrom(_, _, _)
FloatSumFrom(s, i, acc) ==
    IF i > Len(s) THEN acc ELSE FloatSumFrom(s, i + 1, FloatAdd(acc, s[i]))

FloatSum(s) == FloatSumFrom(s, 1, FloatZero)

\* abs(x)
FloatAbs(x) == [x EXCEPT !.sign = IF x.sign = 0 THEN 0 ELSE 1]

\* c += (big - t) + small: the rounding error of t = big + small, for
\* abs(big) >= abs(small), is added to the compensation c
Compensate(c, big, small, t) == FloatAdd(c, FloatAdd(FloatSub(big, t), small))

\* sum(s) of floats (CPython from 3.12 on): the floats are added one after
\* another to total and the rounding error of each addition to c (Neumaier's
\* summation); a c that is not zero is added to the total at the end
RECURSIVE SumFrom(_, _, _, _)
SumNext(s, i, total, c, x, t) ==
    SumFrom(s, i + 1, t,
            Compensate(c,
                       IF FloatGe(FloatAbs(total), FloatAbs(x)) THEN total ELSE x,
                       IF FloatGe(FloatAbs(total), FloatAbs(x)) THEN x ELSE total,
                       t))

SumFrom(s, i, total, c) ==
    IF i > Len(s) THEN (IF c.sign # 0 THEN FloatAdd(total, c) ELSE total)
    ELSE SumNext(s, i, total, c, s[i], FloatAdd(total, s[i]))

\* sum(s) for floats s: the first float is added to the int 0, the others
\* with the compensation
sum(s) == IF s = <<>> THEN FloatZero ELSE SumFrom(s, 2, s[1], FloatZero)

\* sort keys that order as the floats do: the number of smaller floats
FloatRanks(s) ==
    [i \in 1..Len(s) |-> <<Cardinality({j \in 1..Len(s) : FloatLt(s[j], s[i])}), 1>>]

\* the literals of the code, each the binary64 number the literal denotes
Float_0_0 == FloatZero
\* 0.15 = 0x1.3333333333333p-3
Float_0_15 == [sign |-> 1, exp |-> -55, man |-> <<13107, 26214, 19660, 153>>]
\* 0.3 = 0x1.3333333333333p-2
Float_0_3 == [sign |-> 1, exp |-> -54, man |-> <<13107, 26214, 19660, 153>>]
\* 0.4 = 0x1.999999999999ap-2
Float_0_4 == [sign |-> 1, exp |-> -54, man |-> <<6554, 13107, 26214, 204>>]
\* 0.5 = 0x1.0000000000000p-1
Float_0_5 == [sign |-> 1, exp |-> -53, man |-> <<0, 0, 0, 128>>]
\* 0.6 = 0x1.3333333333333p-1
Float_0_6 == [sign |-> 1, exp |-> -53, man |-> <<13107, 26214, 19660, 153>>]
\* 0.7 = 0x1.6666666666666p-1
Float_0_7 == [sign |-> 1, exp |-> -53, man |-> <<26214, 19660, 6553, 179>>]
\* 1.0 = 0x1.0000000000000p+0
Float_1_0 == [sign |-> 1, exp |-> -52, man |-> <<0, 0, 0, 128>>]
\* 1.5 = 0x1.8000000000000p+0
Float_1_5 == [sign |-> 1, exp |-> -52, man |-> <<0, 0, 0, 192>>]
\* 2.0 = 0x1.0000000000000p+1
Float_2_0 == [sign |-> 1, exp |-> -51, man |-> <<0, 0, 0, 128>>]
\* 10.0 = 0x1.4000000000000p+3
Float_10_0 == [sign |-> 1, exp |-> -49, man |-> <<0, 0, 0, 160>>]
\* 100.0 = 0x1.9000000000000p+6
Float_100 == [sign |-> 1, exp |-> -46, man |-> <<0, 0, 0, 200>>]
\* 200.0 = 0x1.9000000000000p+7
Float_200 == [sign |-> 1, exp |-> -45, man |-> <<0, 0, 0, 200>>]

(***************************************************************************)
(* Exceptions and outcomes of a call                                       *)
(***************************************************************************)
ValueError(msg) == [type |-> "ValueError", msg |-> msg]
APIError(msg)   == [type |-> "APIError", msg |-> msg]
\* pydantic.ValidationError raised by model_validate
ValidationError(msg) == [type |-> "ValidationError", msg |-> msg]

Returned(v) == [ok |-> TRUE, value |-> v]
Raised(e)   == [ok |-> FALSE, error |-> e]


(***************************************************************************)
(* Characters and strings                                                  *)
(*                                                                         *)
(* A character is a one-character string; a Hangul syllable is written by  *)
(* its code point ("U+BAA9").  Only the characters below occur in a text.  *)
(***************************************************************************)
LowerLetters ==
    {"a", "b", "c", "d", "e", "f", "g", "h", "i", "j", "k", "l", "m",
     "n", "o", "p", "q", "r", "s", "t", "u", "v", "w", "x", "y", "z"}

UpperLetters ==
    {"A", "B", "C", "D", "E", "F", "G", "H", "I", "J", "K", "L", "M",
     "N", "O", "P", "Q", "R", "S", "T", "U", "V", "W", "X", "Y", "Z"}

LowerOf ==
    [A |-> "a", B |-> "b", C |-> "c", D |-> "d", E |-> "e", F |-> "f",
     G |-> "g", H |-> "h", I |-> "i", J |-> "j", K |-> "k", L |-> "l",
     M |-> "m", N |-> "n", O |-> "o", P |-> "p", Q |-> "q", R |-> "r",
     S |-> "s", T |-> "t", U |-> "u", V |-> "v", W |-> "w", X |-> "x",
     Y |-> "y", Z |-> "z"]

\* the Hangul syllables (U+AC00..U+D7A3) that occur in the stop words and texts
HangulSyllables ==
    {"U+AC19", "U+AC83", "U+ACE0", "U+ADF8", "U+B098", "U+B294",
     "U+B2E4", "U+B300", "U+B418", "U+B4E4", "U+B4F1", "U+B610",
     "U+B7EC", "U+B85C", "U+B978", "U+B97C", "U+B9AC", "U+B9CC",
     "U+B9CE", "U+B9E4", "U+BAA9", "U+BC0F", "U+C0C8", "U+C131",
     "U+C218", "U+C5D0", "U+C6B4", "U+C704", "U+C740", "U+C744",
     "U+C774", "U+C788", "U+C7A5", "U+C800", "U+C9C0", "U+CD9C",
     "U+D1B5", "U+D45C", "U+D558", "U+D55C", "U+D574"}

\* str.isspace
Whitespace == {" ", "\t", "\n"}

\* str.lower, one character
LowerChar(c) == IF c \in UpperLetters THEN LowerOf[c] ELSE c

\* str.lower
Lower(text) == [i \in 1..Len(text) |-> LowerChar(text[i])]

\* str.strip
RECURSIVE LStrip(_)
LStrip(text) ==
    IF text # <<>> /\ Head(text) \in Whitespace THEN LStrip(Tail(text)) ELSE text

RECURSIVE RStrip(_)
RStrip(text) ==
    IF text # <<>> /\ text[Len(text)] \in Whitespace
    THEN RStrip(SubSeq(text, 1, Len(text) - 1))
    ELSE text

Strip(text) == RStrip(LStrip(text))

\* sep.join(parts)
RECURSIVE Join(_, _)
Join(sep, parts) ==
    IF parts = <<>> THEN <<>>
    ELSE IF Len(parts) = 1 THEN parts[1]
    ELSE parts[1] \o sep \o Join(sep, Tail(parts))

\* text[i:].startswith(word), i 1-based
StartsAt(text, i, word) ==
    /\ i + Len(word) - 1 <= Len(text)
    /\ \A j \in 1..Len(word) : text[i + j - 1] = word[j]

\* str.count(word): non-overlapping occurrences, scanning from the left
RECURSIVE CountFrom(_, _, _)
CountFrom(text, i, word) ==
    IF i + Len(word) - 1 > Len(text) THEN 0
    ELSE IF StartsAt(text, i, word)
         THEN 1 + CountFrom(text, i + Len(word), word)
         ELSE CountFrom(text, i + 1, word)

StrCount(text, word) == CountFrom(text, 1, word)

(***************************************************************************)
(* GoalAlignmentCalculator  (calculators/goal_alignment_calculator.py)     *)
(***************************************************************************)
MIN_KEYWORD_LENGTH == 2
MAX_KEYWORDS == 30

STOP_WORDS_KO ==
    {
      <<"U+C774">>, <<"U+ADF8">>, <<"U+C800">>, <<"U+AC83">>, <<"U+C218">>,
      <<"U+B4F1">>, <<"U+B4E4">>, <<"U+BC0F">>, <<"U+C5D0">>, <<"U+C744">>,
      <<"U+B97C">>, <<"U+C774", "U+B97C">>, <<"U+C704", "U+D574">>,
      <<"U+D1B5", "U+D574">>, <<"U+B300", "U+D55C">>, <<"U+C788", "U+B294">>,
      <<"U+D558", "U+B294">>, <<"U+B418", "U+B294">>, <<"U+AC19", "U+C740">>,
      <<"U+C788", "U+B2E4">>, <<"U+D55C", "U+B2E4">>, <<"U+B9CE", "U+C740">>,
      <<"U+B2E4", "U+B978">>, <<"U+C0C8", "U+B85C", "U+C6B4">>,
      <<"U+ADF8", "U+B9AC", "U+ACE0">>, <<"U+D558", "U+C9C0", "U+B9CC">>,
      <<"U+ADF8", "U+B7EC", "U+B098">>, <<"U+B610", "U+D55C">>
    }

STOP_WORDS_EN ==
    {
      <<"t", "h", "e">>, <<"i", "s">>, <<"a", "t">>,
      <<"w", "h", "i", "c", "h">>, <<"o", "n">>, <<"a">>, <<"a", "n">>,
      <<"a", "s">>, <<"a", "r", "e">>, <<"w", "a", "s">>,
      <<"w", "e", "r", "e">>, <<"b", "e">>, <<"b", "e", "e", "n">>,
      <<"b", "e", "i", "n", "g">>, <<"h", "a", "v", "e">>, <<"h", "a", "s">>,
      <<"h", "a", "d">>, <<"d", "o">>, <<"d", "o", "e", "s">>,
      <<"d", "i", "d">>, <<"w", "i", "l", "l">>, <<"w", "o", "u", "l", "d">>,
      <<"s", "h", "o", "u", "l", "d">>, <<"c", "o", "u", "l", "d">>,
      <<"m", "a", "y">>, <<"m", "i", "g", "h", "t">>, <<"m", "u", "s", "t">>,
      <<"c", "a", "n">>, <<"a", "n", "d">>, <<"o", "r">>, <<"b", "u", "t">>,
      <<"i", "f">>, <<"t", "h", "e", "n">>, <<"e", "l", "s", "e">>,
      <<"w", "h", "e", "n">>, <<"w", "h", "e", "r", "e">>, <<"h", "o", "w">>,
      <<"w", "h", "y">>
    }

stop_words == STOP_WORDS_KO \cup STOP_WORDS_EN

\* the character class of r'[가-힣]+|[a-z]+': "ko", "en" or "" (a separator)
CharClass(c) ==
    IF c \in HangulSyllables THEN "ko"
    ELSE IF c \in LowerLetters THEN "en"
    ELSE ""

\* re.findall(r'[가-힣]+|[a-z]+', text): the maximal runs of characters of one
\* class, in order.  A run starts where a character of a class follows none
\* of its class and ends where none of its class follows.
FindAllWords(text) ==
    LET cls == [i \in 1..Len(text) |-> CharClass(text[i])]
        starts == {i \in 1..Len(text) :
                      cls[i] # "" /\ (i = 1 \/ cls[i - 1] # cls[i])}
        ends == {i \in 1..Len(text) :
                    cls[i] # "" /\ (i = Len(text) \/ cls[i + 1] # cls[i])}
        start(k) == CHOOSE i \in starts : Cardinality({j \in starts : j <= i}) = k
        end(k) == CHOOSE i \in ends : Cardinality({j \in ends : j <= i}) = k
    IN  [k \in 1..Cardinality(starts) |-> SubSeq(text, start(k), end(k))]

\* the distinct elements of s in order of first occurrence (the key order of
\* Counter(s))
RECURSIVE Distinct(_, _)
Distinct(s, seen) ==
    IF s = <<>> THEN <<>>
    ELSE IF Head(s) \in seen THEN Distinct(Tail(s), seen)
    ELSE <<Head(s)>> \o Distinct(Tail(s), seen \cup {Head(s)})

\* Counter(s)[w]
Occurrences(s, w) == Cardinality({i \in 1..Len(s) : s[i] = w})

\* list.sort / sorted are stable.  InsertDesc puts the index i into idxs,
\* which is ordered by non-increasing key, behind every index whose key is not
\* smaller; keys are rationals
RECURSIVE InsertDesc(_, _, _)
InsertDesc(i, idxs, keys) ==
    IF idxs = <<>> THEN <<i>>
    ELSE IF RatGt(keys[i], keys[idxs[Len(idxs)]])
         THEN Append(InsertDesc(i, SubSeq(idxs, 1, Len(idxs) - 1), keys),
                     idxs[Len(idxs)])
         ELSE Append(idxs, i)

RECURSIVE OrderDesc(_, _)
OrderDesc(n, keys) ==
    IF n = 0 THEN <<>> ELSE InsertDesc(n, OrderDesc(n - 1, keys), keys)

\* sorted(items, key=lambda x: keys[x], reverse=True), stable
SortDescStable(items, keys) ==
    LET order == OrderDesc(Len(items), keys)
    IN  [k \in 1..Len(items) |-> items[order[k]]]

\* sorted(items, key=lambda x: keys[x]), stable
SortAscStable(items, keys) ==
    SortDescStable(items, [k \in 1..Len(keys) |-> <<-keys[k][1], keys[k][2]>>])

\* variant: the keys in the order of their first occurrence
MostCommon_FirstSeen(words, n) == Take(Distinct(words, {}), n)

\* Counter(words).most_common(n): by count, descending; equal counts in order
\* of first occurrence
MostCommon(words, n) ==
    LET keys == Distinct(words, {})
        counts == [k \in 1..Len(keys) |-> RatInt(Occurrences(words, keys[k]))]
    IN  Take(SortDescStable(keys, counts), n)

_extract_keywords(text) ==
    LET normalized == Lower(text)
        words == FindAllWords(normalized)
        filtered_words ==
            SelectSeq(words,
                      LAMBDA word : Len(word) >= MIN_KEYWORD_LENGTH
                                    /\ word \notin stop_words)
    IN  MostCommon(filtered_words, MAX_KEYWORDS)

\* The iteration order of the Python set common_keywords.  It depends on the
\* string hashes of the process (PYTHONHASHSEED), not on the program, and can
\* be any order of the members.  A seed stands for the hashes by the order
\* they give: its k-th number picks the k-th member of the iteration among
\* the members not yet iterated, taken in goal-keyword order.  The empty seed
\* iterates in goal-keyword order.  HashSeeds(n) has one seed for each of the
\* n! orders of a set of n members.
HashSeeds(n) ==
    {seed \in [1..(n - 1) -> 0..(n - 1)] : \A k \in 1..(n - 1) : seed[k] <= n - k}

RECURSIVE SetIterationFrom(_, _, _)
SetIterationFrom(members, seed, k) ==
    IF members = <<>> THEN <<>>
    ELSE LET i == ((IF k <= Len(seed) THEN seed[k] ELSE 0) % Len(members)) + 1
         IN  <<members[i]>>
             \o SetIterationFrom(SubSeq(members, 1, i - 1)
                                 \o SubSeq(members, i + 1, Len(members)),
                                 seed, k + 1)

SetIteration(members, seed) == SetIterationFrom(members, seed, 1)

TopicMatch(keyword, goal_keywords, conversation_keywords, goal_text_lower, conversation_text_lower) ==
    LET goal_freq == StrCount(goal_text_lower, keyword)
        conv_freq == StrCount(conversation_text_lower, keyword)
        goal_position_score ==
            IF InSeq(keyword, goal_keywords)
            THEN FloatSub(Float_1_0,
                          FloatOfRatio(IndexOf(keyword, goal_keywords),
                                       Len(goal_keywords)))
            ELSE Float_0_0
        conv_position_score ==
            IF InSeq(keyword, conversation_keywords)
            THEN FloatSub(Float_1_0,
                          FloatOfRatio(IndexOf(keyword, conversation_keywords),
                                       Len(conversation_keywords)))
            ELSE Float_0_0
        relevance_score ==
            FloatMul(FloatDiv(FloatAdd(goal_position_score, conv_position_score),
                              Float_2_0),
                     FloatMin(Float_1_0,
                              FloatDiv(FloatOfInt(goal_freq + conv_freq),
                                       Float_10_0)))
    IN  [keyword |-> keyword,
         goal_frequency |-> goal_freq,
         conversation_frequency |-> conv_freq,
         relevance_score |-> relevance_score]

\* the matched topics in the iteration order of the set, without the sort
_find_matched_topics_Unsorted(goal_keywords, conversation_keywords, goal_text, conversation_text, seed) ==
    LET common_keywords ==
            SetIteration(SelectSeq(goal_keywords,
                                   LAMBDA k : InSeq(k, conversation_keywords)),
                         seed)
    IN  [i \in 1..Len(common_keywords) |->
            TopicMatch(common_keywords[i], goal_keywords, conversation_keywords,
                       Lower(goal_text), Lower(conversation_text))]

\* Each local of the code is computed once: it is bound as the element of a
\* one-element set, and the rest of the body is evaluated on that value.
_find_matched_topics(goal_keywords, conversation_keywords, goal_text, conversation_text, seed) ==
    LET Sorted(matched_topics) ==
            SortDescStable(matched_topics,
                           FloatRanks([i \in 1..Len(matched_topics) |->
                                          matched_topics[i].relevance_score]))
        Matched(common_keywords, goal_text_lower, conversation_text_lower) ==
            [i \in 1..Len(common_keywords) |->
                TopicMatch(common_keywords[i], goal_keywords,
                           conversation_keywords,
                           goal_text_lower, conversation_text_lower)]
    IN  CHOOSE sorted \in
            {Sorted(matched_topics) :
                matched_topics \in
                    {Matched(common_keywords, goal_text_lower,
                             conversation_text_lower) :
                        common_keywords \in
                            {SetIteration(
                                SelectSeq(goal_keywords,
                                          LAMBDA k : InSeq(k, conversation_keywords)),
                                seed)},
                        goal_text_lower \in {Lower(goal_text)},
                        conversation_text_lower \in {Lower(conversation_text)}}} :
            TRUE

_calculate_alignment_score(matched_topics, goal_keywords) ==
    IF goal_keywords = <<>> THEN Float_0_0
    ELSE IF matched_topics = <<>> THEN Float_0_0
    ELSE LET total_relevance ==
                 sum([i \in 1..Len(matched_topics) |->
                         matched_topics[i].relevance_score])
             coverage_factor ==
                 FloatOfRatio(Len(matched_topics), Len(goal_keywords))
             quality_factor ==
                 FloatDiv(total_relevance, FloatOfInt(Len(matched_topics)))
             alignment_score ==
                 FloatAdd(FloatMul(Float_0_6, quality_factor),
                          FloatMul(Float_0_4, coverage_factor))
         IN  FloatMin(Float_1_0, FloatMax(Float_0_0, alignment_score))

\* a coverage that counts every conversation keyword as covered
_calculate_goal_coverage_AllCounted(goal_keywords, conversation_keywords) ==
    IF goal_keywords = <<>> THEN Float_0_0
    ELSE FloatOfRatio(Len(conversation_keywords), Len(goal_keywords))

_calculate_goal_coverage(goal_keywords, conversation_keywords) ==
    IF goal_keywords = <<>> THEN Float_0_0
    ELSE LET matched_count ==
                 Cardinality(Range(goal_keywords) \cap Range(conversation_keywords))
         IN  FloatOfRatio(matched_count, Len(goal_keywords))

\* thresholds that are exclusive
_categorize_alignment_Exclusive(alignment_score) ==
    IF FloatGt(alignment_score, Float_0_7) THEN "high"
    ELSE IF FloatGt(alignment_score, Float_0_4) THEN "medium"
    ELSE IF FloatGt(alignment_score, Float_0_15) THEN "low"
    ELSE "none"

_categorize_alignment(alignment_score) ==
    IF FloatGe(alignment_score, Float_0_7) THEN "high"
    ELSE IF FloatGe(alignment_score, Float_0_4) THEN "medium"
    ELSE IF FloatGe(alignment_score, Float_0_15) THEN "low"
    ELSE "none"

\* is_aligned = alignment_score >= 0.3
is_aligned(alignment_score) == FloatGe(alignment_score, Float_0_3)

\* every absent keyword, without the limit of five
_find_missing_topics_All(goal_keywords, conversation_keywords) ==
    SelectSeq(goal_keywords, LAMBDA k : ~InSeq(k, conversation_keywords))

\* the absent ones among the first five goal keywords
_find_missing_topics_FirstFive(goal_keywords, conversation_keywords) ==
    SelectSeq(Take(goal_keywords, 5), LAMBDA k : ~InSeq(k, conversation_keywords))

_find_missing_topics(goal_keywords, conversation_keywords) ==
    LET missing ==
            SelectSeq(goal_keywords, LAMBDA k : ~InSeq(k, conversation_keywords))
    IN  Take(missing, 5)

\* a validation that does not trim the texts
GoalAlignment_validate_input_Untrimmed(data) ==
    IF data.goal_text = <<>>
    THEN Some(ValueError("Goal text cannot be empty"))
    ELSE IF data.conversation_transcript = <<>>
    THEN Some(ValueError("Conversation transcript cannot be empty"))
    ELSE IF Len(data.goal_text) < 10
    THEN Some(ValueError("Goal text is too short (minimum 10 characters)"))
    ELSE IF Len(data.conversation_transcript) < 20
    THEN Some(ValueError(
             "Conversation transcript is too short (minimum 20 characters)"))
    ELSE None

\* None when the input is valid, else the ValueError raised
GoalAlignment_validate_input(data) ==
    IF data.goal_text = <<>> \/ Strip(data.goal_text) = <<>>
    THEN Some(ValueError("Goal text cannot be empty"))
    ELSE IF data.conversation_transcript = <<>>
            \/ Strip(data.conversation_transcript) = <<>>
    THEN Some(ValueError("Conversation transcript cannot be empty"))
    ELSE IF Len(data.goal_text) < 10
    THEN Some(ValueError("Goal text is too short (minimum 10 characters)"))
    ELSE IF Len(data.conversation_transcript) < 20
    THEN Some(ValueError(
             "Conversation transcript is too short (minimum 20 characters)"))
    ELSE None

GoalAlignmentInput(goal_text, conversation_transcript) ==
    [goal_text |-> goal_text,
     conversation_transcript |-> conversation_transcript,
     language |-> "ko"]

\* the pydantic model: alignment_score and goal_coverage carry ge=0.0, le=1.0
GoalAlignmentResult(fields) ==
    IF /\ FloatGe(fields.alignment_score, Float_0_0)
       /\ FloatLe(fields.alignment_score, Float_1_0)
       /\ FloatGe(fields.goal_coverage, Float_0_0)
       /\ FloatLe(fields.goal_coverage, Float_1_0)
    THEN Returned(fields)
    ELSE Raised(ValidationError("GoalAlignmentResult"))

GoalAlignmentCalculator_calculate(data, seed) ==
    IF GoalAlignment_validate_input(data) # None
    THEN Raised(GoalAlignment_validate_input(data)[1])
    ELSE
    LET Result(goal_keywords, conversation_keywords, matched_topics, alignment_score) ==
            LET goal_coverage ==
                    _calculate_goal_coverage(goal_keywords, conversation_keywords)
                alignment_category == _categorize_alignment(alignment_score)
                missing_topics ==
                    _find_missing_topics(goal_keywords, conversation_keywords)
            IN  GoalAlignmentResult(
                    [kind |-> "GoalAlignmentResult",
                     alignment_score |-> alignment_score,
                     matched_topics |-> matched_topics,
                     matched_topic_count |-> Len(matched_topics),
                     goal_keywords |-> goal_keywords,
                     conversation_keywords |-> conversation_keywords,
                     goal_coverage |-> goal_coverage,
                     is_aligned |-> is_aligned(alignment_score),
                     alignment_category |-> alignment_category,
                     missing_topics |-> missing_topics])
        Scored(goal_keywords, conversation_keywords, matched_topics) ==
            CHOOSE result \in
                {Result(goal_keywords, conversation_keywords, matched_topics,
                        alignment_score) :
                    alignment_score \in
                        {_calculate_alignment_score(matched_topics,
                                                    goal_keywords)}} : TRUE
        Matched(goal_keywords, conversation_keywords) ==
            CHOOSE result \in
                {Scored(goal_keywords, conversation_keywords, matched_topics) :
                    matched_topics \in
                        {_find_matched_topics(goal_keywords,
                                              conversation_keywords,
                                              data.goal_text,
                                              data.conversation_transcript,
                                              seed)}} : TRUE
    IN  CHOOSE result \in
            {Matched(goal_keywords, conversation_keywords) :
                goal_keywords \in {_extract_keywords(data.goal_text)},
                conversation_keywords \in
                    {_extract_keywords(data.conversation_transcript)}} : TRUE

(***************************************************************************)
(* SpeechAnalyzer  (calculators/speech_analyzer.py)                        *)
(***************************************************************************)
SpeechSegment(speaker, text, start_time, end_time) ==
    [speaker |-> speaker, text |-> text,
     start_time |-> start_time, end_time |-> end_time]

\* the floats of the times from -1.0 to 30.0 s, evaluated once
SecondsTable == [t \in -10..300 |-> FloatOfRatio(t, 10)]

\* the float of a time given in tenths of a second: 3.5 is Seconds(35)
Seconds(t) == IF t \in DOMAIN SecondsTable THEN SecondsTable[t] ELSE FloatOfRatio(t, 10)

\* a duration that forgets the start of the segment
Duration_FromZero(segment) == Seconds(segment.end_time)

\* SpeechSegment.duration
Duration(segment) == FloatSub(Seconds(segment.end_time), Seconds(segment.start_time))

WhisperTranscription(segments, total_duration) ==
    [segments |-> segments,
     manager_identifier |-> "manager",
     member_identifier |-> "member",
     total_duration |-> total_duration]

\* a validation that does not compare end_time with start_time
RECURSIVE ValidateSegmentsFrom_NoOrderCheck(_, _)
ValidateSegmentsFrom_NoOrderCheck(data, i) ==
    IF i > Len(data.segments) THEN None
    ELSE LET segment == data.segments[i]
         IN  IF segment.start_time < 0
             THEN Some([type |-> "ValueError", msg |-> "negative start_time",
                        segment |-> i - 1])
             ELSE IF segment.speaker
                        \notin {data.manager_identifier, data.member_identifier}
             THEN Some([type |-> "ValueError", msg |-> "invalid speaker",
                        segment |-> i - 1])
             ELSE ValidateSegmentsFrom_NoOrderCheck(data, i + 1)

\* the error of the first offending segment from index i (0-based in the
\* message), None when there is none
RECURSIVE ValidateSegmentsFrom(_, _)
ValidateSegmentsFrom(data, i) ==
    IF i > Len(data.segments) THEN None
    ELSE LET segment == data.segments[i]
         IN  IF segment.start_time < 0
             THEN Some([type |-> "ValueError", msg |-> "negative start_time",
                        segment |-> i - 1])
             ELSE IF segment.end_time < segment.start_time
             THEN Some([type |-> "ValueError", msg |-> "end_time before start_time",
                        segment |-> i - 1])
             ELSE IF segment.speaker
                        \notin {data.manager_identifier, data.member_identifier}
             THEN Some([type |-> "ValueError", msg |-> "invalid speaker",
                        segment |-> i - 1])
             ELSE ValidateSegmentsFrom(data, i + 1)

\* None when the input is valid, else the ValueError raised
SpeechAnalyzer_validate_input(data) ==
    IF data.segments = <<>>
    THEN Some(ValueError("Segments list cannot be empty"))
    ELSE ValidateSegmentsFrom(data, 1)

\* the gap between segment i and the next one
GapAfter(sorted_segments, i) ==
    LET current_end == Seconds(sorted_segments[i].end_time)
        next_start == Seconds(sorted_segments[i + 1].start_time)
    IN  FloatSub(next_start, current_end)

\* a sum of the gaps that lets an overlap count as negative silence
RECURSIVE SilenceFrom_Signed(_, _, _)
SilenceFrom_Signed(sorted_segments, i, total_silence) ==
    IF i > Len(sorted_segments) - 1 THEN total_silence
    ELSE SilenceFrom_Signed(sorted_segments, i + 1,
                            FloatAdd(total_silence, GapAfter(sorted_segments, i)))

\* the loop of _calculate_silence_time from pair i, total_silence being the
\* sum so far
RECURSIVE SilenceFrom(_, _, _)
SilenceFrom(sorted_segments, i, total_silence) ==
    IF i > Len(sorted_segments) - 1 THEN total_silence
    ELSE LET gap == GapAfter(sorted_segments, i)
         IN  SilenceFrom(sorted_segments, i + 1,
                         IF FloatGt(gap, Float_0_0)
                         THEN FloatAdd(total_silence, gap)
                         ELSE total_silence)

_calculate_silence_time(sorted_segments) ==
    IF Len(sorted_segments) < 2 THEN Float_0_0
    ELSE SilenceFrom(sorted_segments, 1, Float_0_0)

\* the truth value of an Optional[float]
Truthy(x) == x # None /\ x[1] # 0

\* a / b if b > 0 else 0.0
SafeDiv(a, b) == IF FloatGt(b, Float_0_0) THEN FloatDiv(a, b) ELSE Float_0_0

SpeechAnalyzer_calculate(data) ==
    IF SpeechAnalyzer_validate_input(data) # None
    THEN Raised(SpeechAnalyzer_validate_input(data)[1])
    ELSE IF data.segments = <<>>
    THEN Raised(ValueError("Cannot analyze empty transcription"))
    ELSE
    \* each local of the code is computed once: it is bound as the element of
    \* a one-element set
    LET OfSpeaker(sorted_segments, id) ==
            SelectSeq(sorted_segments, LAMBDA g : g.speaker = id)
        \* elif: a segment counts for the member only if it is not the manager's
        OfMember(sorted_segments) ==
            SelectSeq(sorted_segments,
                      LAMBDA g : g.speaker # data.manager_identifier
                                 /\ g.speaker = data.member_identifier)
        \* time = 0.0, then time += segment.duration for each of the segments
        TimeOf(segs) ==
            FloatSumFrom([i \in 1..Len(segs) |-> Duration(segs[i])], 1, Float_0_0)
        Result(manager_time, member_time, manager_turns, member_turns, total_speaking_time, total_silence_time, meeting_duration) ==
            LET silence_percentage ==
                    IF FloatGt(meeting_duration, Float_0_0)
                    THEN FloatMul(FloatDiv(total_silence_time, meeting_duration),
                                  Float_100)
                    ELSE Float_0_0
            IN  Returned(
                    [kind |-> "SpeechAnalysisResult",
                     manager_speaking_time |-> manager_time,
                     member_speaking_time |-> member_time,
                     total_speaking_time |-> total_speaking_time,
                     total_silence_time |-> total_silence_time,
                     silence_percentage |-> silence_percentage,
                     manager_speaking_ratio |->
                         SafeDiv(manager_time, total_speaking_time),
                     member_speaking_ratio |->
                         SafeDiv(member_time, total_speaking_time),
                     manager_turn_count |-> manager_turns,
                     member_turn_count |-> member_turns,
                     total_turns |-> manager_turns + member_turns,
                     manager_avg_segment_duration |->
                         SafeDiv(manager_time, FloatOfInt(manager_turns)),
                     member_avg_segment_duration |->
                         SafeDiv(member_time, FloatOfInt(member_turns)),
                     meeting_duration |-> meeting_duration])
        Timed(sorted_segments, manager_time, member_time) ==
            CHOOSE result \in
                {Result(manager_time, member_time,
                        Len(OfSpeaker(sorted_segments, data.manager_identifier)),
                        Len(OfMember(sorted_segments)),
                        total_speaking_time, total_silence_time,
                        meeting_duration) :
                    total_speaking_time \in {FloatAdd(manager_time, member_time)},
                    total_silence_time \in
                        {_calculate_silence_time(sorted_segments)},
                    meeting_duration \in
                        {IF Truthy(data.total_duration)
                         THEN Seconds(data.total_duration[1])
                         ELSE Seconds(sorted_segments[Len(sorted_segments)].end_time)}} :
                TRUE
        Sorted(sorted_segments) ==
            CHOOSE result \in
                {Timed(sorted_segments, manager_time, member_time) :
                    manager_time \in
                        {TimeOf(OfSpeaker(sorted_segments,
                                          data.manager_identifier))},
                    member_time \in {TimeOf(OfMember(sorted_segments))}} : TRUE
    IN  CHOOSE result \in
            {Sorted(sorted_segments) :
                sorted_segments \in
                    {SortAscStable(data.segments,
                                   [i \in 1..Len(data.segments) |->
                                       RatInt(data.segments[i].start_time)])}} :
            TRUE

(***************************************************************************)
(* LLMBaseCalculator  (calculators/llm_base.py) and its two subclasses     *)
(*                                                                         *)
(* A JSON value of the tool input is tagged with its JSON type; the text   *)
(* fields the calculators only copy are TLA+ strings.                      *)
(***************************************************************************)
JInt(n)    == [t |-> "int", int |-> n]
JFloat(r)  == [t |-> "float", float |-> r]
JStr(x)    == [t |-> "str", str |-> x]
JList(xs)  == [t |-> "list", list |-> xs]
JNull      == [t |-> "null"]

\* the numeric strings that occur in a response, with the number they spell
NumericStrings == ("85" :> 85) @@ ("101" :> 101)

\* pydantic (lax mode) on a float field: an int, a float or a numeric string
AsFloat(j) ==
    IF j.t = "int" THEN Some(RatInt(j.int))
    ELSE IF j.t = "float" THEN Some(j.float)
    ELSE IF j.t = "str" /\ j.str \in DOMAIN NumericStrings
         THEN Some(RatInt(NumericStrings[j.str]))
    ELSE None

\* pydantic (lax mode) on an int field: an int, a float without fractional
\* part or a numeric string
AsInt(j) ==
    IF j.t = "int" THEN Some(j.int)
    ELSE IF j.t = "float" /\ j.float[2] = 1 THEN Some(j.float[1])
    ELSE IF j.t = "str" /\ j.str \in DOMAIN NumericStrings
         THEN Some(NumericStrings[j.str])
    ELSE None

\* a str field accepts a string only
AsStr(j) == IF j.t = "str" THEN Some(j.str) ELSE None

\* Field(..., ge=0, le=100) of type float: Some(value), or None when the field
\* is missing or invalid
ScoreField(input, name) ==
    IF name \notin DOMAIN input THEN None
    ELSE LET x == AsFloat(input[name])
         IN  IF x # None /\ RatGe(x[1], RatInt(0)) /\ RatLe(x[1], RatInt(100))
             THEN x ELSE None

\* variant: an int field without ge and le
IntScoreField_Unbounded(input, name) ==
    IF name \notin DOMAIN input THEN None ELSE AsInt(input[name])

\* Field(..., ge=0, le=100) of type int
IntScoreField(input, name) ==
    IF name \notin DOMAIN input THEN None
    ELSE LET x == AsInt(input[name])
         IN  IF x # None /\ x[1] >= 0 /\ x[1] <= 100 THEN x ELSE None

\* Field(...) of type str
StrField(input, name) ==
    IF name \notin DOMAIN input THEN None ELSE AsStr(input[name])

\* a nested model all of whose listed fields are required strings; the
\* optional ones may be absent or null
ItemValid(item, required, optional) ==
    /\ \A f \in required : StrField(item, f) # None
    /\ \A f \in optional :
          f \in DOMAIN item => (item[f].t = "null" \/ item[f].t = "str")

\* the object of a nested model built from a valid item: it has the fields
\* of the model and no other; a required field holds its string, an optional
\* one Some(string), or None when it is absent or null
ItemObject(item, required, optional) ==
    [f \in required \cup optional |->
        IF f \in required THEN item[f].str
        ELSE IF f \in DOMAIN item THEN AsStr(item[f]) ELSE None]

\* Field(default_factory=list) of a list of nested models: Some(objects), or
\* None when present and invalid
ListField(input, name, required, optional) ==
    IF name \notin DOMAIN input THEN Some(<<>>)
    ELSE IF input[name].t # "list" THEN None
    ELSE IF \A i \in 1..Len(input[name].list) :
               ItemValid(input[name].list[i], required, optional)
         THEN Some([i \in 1..Len(input[name].list) |->
                       ItemObject(input[name].list[i], required, optional)])
         ELSE None

StyleExampleFields == {"text", "style", "reason"}
SafetyIndicatorFields == {"category", "description", "impact"}

\* CoachingStyleResult.model_validate(input)
CoachingStyleResult_model_validate(input) ==
    LET directive_score == ScoreField(input, "directive_score")
        coaching_score == ScoreField(input, "coaching_score")
        balance_assessment == StrField(input, "balance_assessment")
        key_examples == ListField(input, "key_examples", StyleExampleFields, {})
        improvement_feedback == StrField(input, "improvement_feedback")
    IN  IF \/ directive_score = None
           \/ coaching_score = None
           \/ balance_assessment = None
           \/ key_examples = None
           \/ improvement_feedback = None
        THEN Raised(ValidationError("CoachingStyleResult"))
        ELSE Returned([kind |-> "CoachingStyleResult",
                       directive_score |-> directive_score[1],
                       coaching_score |-> coaching_score[1],
                       balance_assessment |-> balance_assessment[1],
                       key_examples |-> key_examples[1],
                       improvement_feedback |-> improvement_feedback[1]])

\* SafetyScoreResult.model_validate(input)
SafetyScoreResult_model_validate(input) ==
    LET safety_score == IntScoreField(input, "safety_score")
        score_rationale == StrField(input, "score_rationale")
        positive_factors ==
            ListField(input, "positive_factors", SafetyIndicatorFields, {"quote"})
        risk_factors ==
            ListField(input, "risk_factors", SafetyIndicatorFields, {"quote"})
        manager_behavior_analysis == StrField(input, "manager_behavior_analysis")
    IN  IF \/ safety_score = None
           \/ score_rationale = None
           \/ positive_factors = None
           \/ risk_factors = None
           \/ manager_behavior_analysis = None
        THEN Raised(ValidationError("SafetyScoreResult"))
        ELSE Returned([kind |-> "SafetyScoreResult",
                       safety_score |-> safety_score[1],
                       score_rationale |-> score_rationale[1],
                       positive_factors |-> positive_factors[1],
                       risk_factors |-> risk_factors[1],
                       manager_behavior_analysis |-> manager_behavior_analysis[1]])

\* output_model.model_validate(input)
model_validate(output_model, input) ==
    IF output_model = "CoachingStyleResult"
    THEN CoachingStyleResult_model_validate(input)
    ELSE SafetyScoreResult_model_validate(input)

tool_name == "record_analysis_result"

\* content blocks of a response of client.messages.create
TextBlock == [type |-> "text", name |-> "", input |-> <<>>]
ToolUseBlock(name, input) == [type |-> "tool_use", name |-> name, input |-> input]

\* what client.messages.create does: it raises APIError, or returns a message
ServiceFailure == [raises |-> TRUE, content |-> <<>>]
Message(content) == [raises |-> FALSE, content |-> content]

\* not settings.ANTHROPIC_API_KEY
KeyMissing(api_key) == api_key = None \/ api_key[1] = ""

\* variant: the key is not looked at
LLM_before_request_Unchecked(api_key) == None

\* _get_llm_insight up to the await of client.messages.create: Some(error)
\* when it raises before the request, None when it issues the request
LLM_before_request(api_key) ==
    IF KeyMissing(api_key)
    THEN Some(ValueError("Anthropic API Key is missing"))
    ELSE None

\* the loop over response.content from block i: the first tool_use block of
\* the tool's name decides
RECURSIVE ExtractToolUse(_, _, _)
ExtractToolUse(content, i, output_model) ==
    IF i > Len(content)
    THEN Raised(ValueError("LLM did not return a valid tool use response"))
    ELSE IF content[i].type = "tool_use" /\ content[i].name = tool_name
         THEN model_validate(output_model, content[i].input)
         ELSE ExtractToolUse(content, i + 1, output_model)

\* _get_llm_insight from the return of client.messages.create on: both except
\* clauses log and re-raise
LLM_after_request(response, output_model) ==
    IF response.raises
    THEN Raised(APIError("Anthropic API Error"))
    ELSE ExtractToolUse(response.content, 1, output_model)

\* the output model a calculator passes to _get_llm_insight
OutputModelOf(calc) ==
    IF calc = "coaching" THEN "CoachingStyleResult" ELSE "SafetyScoreResult"

(***************************************************************************)
(* ReportFormatter  (formatters/report_formatter.py)                       *)
(*                                                                         *)
(* The five radar subjects are written by their English names: listening   *)
(* (U+ACBD U+CCAD "(Listening)"), questioning, safety, alignment, balance. *)
(***************************************************************************)
\* an attribute the object does not have raises AttributeError
HasAttrs(obj, names) == names \subseteq DOMAIN obj
AttributeError == [type |-> "AttributeError", msg |-> "object has no attribute"]

RadarChartPoint(subject, A) == [subject |-> subject, A |-> A, fullMark |-> 100]

WordCloudItem(text, value) == [text |-> text, value |-> value]

\* f"'{topic}'... " : the suggestion to discuss a missing topic further
DiscussSuffix ==
    <<"U+C5D0", " ", "U+B300", "U+D574", " ", "U+B354", " ", "U+B17C",
      "U+C758", "U+D574", "U+BCF4", "U+AE30">>

DiscussFurther(topic) == <<"'">> \o topic \o <<"'">> \o DiscussSuffix

\* the fixed closing suggestion to prepare the feedback session with the manager
PrepareFeedbackSession ==
    <<"U+B9E4", "U+B2C8", "U+C800", "U+C640", "U+C758", " ", "U+D53C",
      "U+B4DC", "U+BC31", " ", "U+C138", "U+C158", " ", "U+C900", "U+BE44",
      "U+D558", "U+AE30">>

format_manager_report(speech_result, style_result, safety_result, goal_result) ==
    IF ~ /\ HasAttrs(speech_result, {"member_speaking_ratio", "manager_speaking_ratio"})
         /\ HasAttrs(style_result, {"coaching_score", "improvement_feedback"})
         /\ HasAttrs(safety_result, {"safety_score"})
         /\ HasAttrs(goal_result, {"alignment_score"})
    THEN Raised(AttributeError)
    ELSE
    LET listening_raw == FloatMul(speech_result.member_speaking_ratio, Float_100)
        listening_score == FloatMin(Float_100, FloatMul(listening_raw, Float_1_5))
        balance_ratio == FloatMax(speech_result.manager_speaking_ratio,
                                  speech_result.member_speaking_ratio)
        stability_raw ==
            FloatSub(Float_100,
                     FloatMul(FloatMax(Float_0_0,
                                       FloatSub(balance_ratio, Float_0_5)),
                              Float_200))
        stability_score ==
            FloatMax(Float_0_0, FloatMin(Float_100, stability_raw))
        radar_data ==
            << RadarChartPoint("listening", FloatTrunc(listening_score)),
               RadarChartPoint("questioning",
                               FloatTrunc(FloatOfRat(style_result.coaching_score))),
               RadarChartPoint("safety", safety_result.safety_score),
               RadarChartPoint("alignment",
                               FloatTrunc(FloatMul(goal_result.alignment_score,
                                                   Float_100))),
               RadarChartPoint("balance", FloatTrunc(stability_score)) >>
    IN  Returned([radar_chart |-> radar_data,
                  timeline_data |-> <<>>,
                  coaching_score |-> style_result.coaching_score,
                  safety_score |-> safety_result.safety_score,
                  talk_ratio |-> speech_result.manager_speaking_ratio,
                  feedback |-> style_result.improvement_feedback])

\* the loop over goal_result.matched_topics from topic i: the first item of
\* the cloud with the topic's keyword gains 50, a keyword not in the cloud
\* is appended with 60
RECURSIVE HighlightMatched(_, _, _)
HighlightMatched(word_cloud, matched_topics, i) ==
    IF i > Len(matched_topics) THEN word_cloud
    ELSE LET kw == matched_topics[i].keyword
             hits == {k \in 1..Len(word_cloud) : word_cloud[k].text = kw}
         IN  IF hits # {}
             THEN LET first == CHOOSE k \in hits : \A h \in hits : k <= h
                  IN  HighlightMatched(
                          [word_cloud EXCEPT ![first].value = @ + 50],
                          matched_topics, i + 1)
             ELSE HighlightMatched(Append(word_cloud, WordCloudItem(kw, 60)),
                                   matched_topics, i + 1)

\* str.upper of an alignment category
Upper(category) ==
    CASE category = "high" -> "HIGH"
      [] category = "medium" -> "MEDIUM"
      [] category = "low" -> "LOW"
      [] category = "none" -> "NONE"

\* The objects the names of a call of format_member_report are bound to
\* while it builds the word cloud: goal_result is the object the caller
\* passed, keywords and word_cloud are lists the call creates.  A statement
\* writes to the object its target names and to no other.
CallObjects(goal_result) ==
    [goal_result |-> goal_result, keywords |-> <<>>, word_cloud |-> <<>>]

\* variant: the first n keywords are taken out of the result's own list
SliceKeywords_TakenOut(objects, n) == [objects EXCEPT !.keywords = Take(objects.goal_result.conversation_keywords, n), !.goal_result.conversation_keywords = SubSeq(@, Len(Take(@, n)) + 1, Len(@))]

\* goal_result.conversation_keywords[:n]: a new list of the first n
\* keywords; the list of the result is read
SliceKeywords(objects, n) ==
    [objects EXCEPT !.keywords = Take(objects.goal_result.conversation_keywords, n)]

\* for kw in ...: word_cloud.append(WordCloudItem(text=kw, value=30))
SeedWordCloud(objects) ==
    [objects EXCEPT !.word_cloud =
        @ \o [k \in 1..Len(objects.keywords) |->
                 WordCloudItem(objects.keywords[k], 30)]]

\* for topic in goal_result.matched_topics: the items written are those of
\* word_cloud
HighlightWordCloud(objects) ==
    [objects EXCEPT !.word_cloud =
        HighlightMatched(@, objects.goal_result.matched_topics, 1)]

\* word_cloud.sort(key=lambda x: x.value, reverse=True): the list is sorted
\* in place
SortWordCloud(objects) ==
    [objects EXCEPT !.word_cloud =
        SortDescStable(@, [k \in 1..Len(objects.word_cloud) |->
                              RatInt(objects.word_cloud[k].value)])]

\* the objects of a call after the sort of the word cloud
WordCloudObjects(goal_result) ==
    SortWordCloud(HighlightWordCloud(SeedWordCloud(
        SliceKeywords(CallObjects(goal_result), 15))))

\* variant: the list is left in the order in which it was built
SortedWordCloud_Unsorted(goal_result) == HighlightWordCloud(SeedWordCloud(SliceKeywords(CallObjects(goal_result), 15))).word_cloud

\* variant: every conversation keyword is seeded
SortedWordCloud_SeedAll(goal_result) == SortWordCloud(HighlightWordCloud(SeedWordCloud(SliceKeywords(CallObjects(goal_result), Len(goal_result.conversation_keywords))))).word_cloud

\* word_cloud after word_cloud.sort(key=lambda x: x.value, reverse=True):
\* the first 15 conversation keywords at 30, the matched topics highlighted
SortedWordCloud(goal_result) == WordCloudObjects(goal_result).word_cloud

\* variant: the closing suggestion is appended whatever the feedback
format_member_report_AlwaysClosing(goal_result, speech_result, style_result) ==
    IF ~ /\ HasAttrs(goal_result, {"conversation_keywords", "matched_topics",
                                   "missing_topics", "alignment_score",
                                   "alignment_category"})
         /\ HasAttrs(speech_result, {"meeting_duration", "total_turns"})
         /\ HasAttrs(style_result, {"improvement_feedback"})
    THEN Raised(AttributeError)
    ELSE
    LET word_cloud == SortedWordCloud(goal_result)
        topic_items ==
            [k \in 1..Len(goal_result.missing_topics) |->
                DiscussFurther(goal_result.missing_topics[k])]
        action_items == Append(topic_items, PrepareFeedbackSession)
    IN  Returned([word_cloud |-> Take(word_cloud, 20),
                  alignment_score |-> goal_result.alignment_score,
                  alignment_category |-> Upper(goal_result.alignment_category),
                  action_items |-> action_items,
                  meeting_duration |-> speech_result.meeting_duration,
                  total_turns |-> speech_result.total_turns])

format_member_report(goal_result, speech_result, style_result) ==
    IF ~ /\ HasAttrs(goal_result, {"conversation_keywords", "matched_topics",
                                   "missing_topics", "alignment_score",
                                   "alignment_category"})
         /\ HasAttrs(speech_result, {"meeting_duration", "total_turns"})
         /\ HasAttrs(style_result, {"improvement_feedback"})
    THEN Raised(AttributeError)
    ELSE
    LET word_cloud == SortedWordCloud(goal_result)
        topic_items ==
            [k \in 1..Len(goal_result.missing_topics) |->
                DiscussFurther(goal_result.missing_topics[k])]
        action_items ==
            IF style_result.improvement_feedback # ""
            THEN Append(topic_items, PrepareFeedbackSession)
            ELSE topic_items
    IN  Returned([word_cloud |-> Take(word_cloud, 20),
                  alignment_score |-> goal_result.alignment_score,
                  alignment_category |-> Upper(goal_result.alignment_category),
                  action_items |-> action_items,
                  meeting_duration |-> speech_result.meeting_duration,
                  total_turns |-> speech_result.total_turns])

(***************************************************************************)
(* OneOnOneService  (domain/oneonone/service.py) and the HTTP handlers     *)
(* (api/v1/endpoints/sessions.py)                                          *)
(***************************************************************************)
\* str(n) of an int: its decimal digits, after a minus sign if it is negative
DecimalDigits == <<"0", "1", "2", "3", "4", "5", "6", "7", "8", "9">>

RECURSIVE DigitsOf(_)
DigitsOf(n) ==
    IF n < 10 THEN DecimalDigits[n + 1]
    ELSE DigitsOf(n \div 10) \o DecimalDigits[(n % 10) + 1]

IntStr(n) == IF n < 0 THEN "-" \o DigitsOf(-n) ELSE DigitsOf(n)

\* the rows of one_on_one_sessions; a request may also name a session that
\* does not exist
SessionIds == {1, 2}
MissingSessionId == CHOOSE n \in 1..(Cardinality(SessionIds) + 1) : n \notin SessionIds
RequestedIds == SessionIds \cup {MissingSessionId}

\* datetime.now(): the machine's wall clock in local time, which another
\* reading may find at the same value, later or earlier; in whole seconds
\* since the epoch
Timestamps == {0, 1}

\* str(datetime.now().timestamp()): the float of a whole second
TimestampStr(t) == IntStr(t) \o ".0"

\* audio_file.filename: the name the client gave its upload.  The uploads
\* of the model bear one name, so that two paths of one session differ by
\* the reading of the clock alone
Filenames == {"audio.wav"}

\* f"{temp_dir}/{session_id}_{datetime.now().timestamp()}_{audio_file.filename}"
file_path(session_id, timestamp, filename) ==
    "temp_audio/" \o IntStr(session_id) \o "_" \o TimestampStr(timestamp)
        \o "_" \o filename

\* open(file_path, "rb") of a path that names no file
FileNotFoundError(path) ==
    [type |-> "FileNotFoundError",
     msg |-> "[Errno 2] No such file or directory: '" \o path \o "'"]

\* the handlers that can be in flight at once
Requests == {1, 2}

\* the number of requests the clients send over a behaviour
MaxRequests == 2

\* the texts of the model
GoalSales ==
    <<"G", "r", "o", "w", " ", "s", "a", "l", "e", "s">>

NoGoalProvided ==
    <<"N", "o", " ", "s", "p", "e", "c", "i", "f", "i", "c", " ", "g", "o",
      "a", "l", " ", "p", "r", "o", "v", "i", "d", "e", "d", ".">>

TextOk ==
    <<"o", "k">>

TextHowIsSales ==
    <<"s", "a", "l", "e", "s", " ", "g", "o", "a", "l">>

TextSalesGrowth ==
    <<"g", "o", "o", "d", " ", "s", "a", "l", "e", "s">>

\* table goals: session 1 is of a user with one goal, session 2 of a user
\* with none
GoalsOf(user_id) == IF user_id = 1 THEN <<GoalSales>> ELSE <<>>

\* what openai audio.transcriptions.create can do: it raises, or returns a
\* verbose_json transcription (times in tenths of a second)
WhisperSegment(text, start, end) == [text |-> text, start |-> start, end |-> end]

WhisperResponses ==
    << [raises |-> TRUE, segments |-> <<>>, duration |-> 0],
       [raises |-> FALSE, segments |-> <<>>, duration |-> 0],
       [raises |-> FALSE,
        segments |-> <<WhisperSegment(TextOk, 0, 10)>>,
        duration |-> 10],
       [raises |-> FALSE,
        segments |-> <<WhisperSegment(TextHowIsSales, 0, 35),
                       WhisperSegment(TextSalesGrowth, 40, 90)>>,
        duration |-> 100] >>

\* a valid tool input of each output model
CoachingInputOk ==
    [directive_score |-> JInt(40),
     coaching_score |-> JInt(60),
     balance_assessment |-> JStr("Balanced"),
     improvement_feedback |-> JStr("Ask more open questions")]

SafetyInputOk ==
    [safety_score |-> JInt(85),
     score_rationale |-> JStr("Open dialogue"),
     manager_behavior_analysis |-> JStr("Listens actively")]

ValidInputOf(calc) == IF calc = "coaching" THEN CoachingInputOk ELSE SafetyInputOk

\* what client.messages.create can do for a calculator of the orchestrator:
\* it raises, or returns the tool call; to the safety calculator it may also
\* return a message without a tool call
LLMResponses(calc) ==
    << ServiceFailure,
       Message(<<ToolUseBlock(tool_name, ValidInputOf(calc))>>) >>
    \o (IF calc = "safety" THEN <<Message(<<>>)>> ELSE <<>>)

\* settings.ANTHROPIC_API_KEY
ApiKeys == <<None, Some(""), Some("sk-ant")>>

\* the four calculators in the order of the gather call
CalcOrder == <<"speech", "goal", "coaching", "safety">>
Calcs == Range(CalcOrder)
LLMCalcs == {"coaching", "safety"}

VARIABLES
    api_key,      \* settings.ANTHROPIC_API_KEY
    hash_seed,    \* the string hashing of the process
    sessions,     \* table one_on_one_sessions: status and report_data by id
    runs,         \* the handler of each request in flight
    temp_audio,   \* the paths of the files in the directory temp_audio
    started,      \* the number of requests sent so far
    committed,    \* history: the reports committed for each session, in order
    probe         \* a call of one function in isolation

vars == <<api_key, hash_seed, sessions, runs, temp_audio, started,
          committed, probe>>

\* json.dumps / json.loads: a str holding the serialised object
json_dumps(obj) == [json |-> obj]
json_loads(str) == str.json

\* the labelling loop: even segments are the manager's, odd ones the member's
labeled_segments(segments_raw) ==
    [i \in 1..Len(segments_raw) |->
        SpeechSegment(IF (i - 1) % 2 = 0 THEN "manager" ELSE "member",
                      segments_raw[i].text,
                      segments_raw[i].start,
                      segments_raw[i].end)]

\* str(speaker)
SpeakerText(speaker) ==
    IF speaker = "manager"
    THEN <<"m", "a", "n", "a", "g", "e", "r">>
    ELSE <<"m", "e", "m", "b", "e", "r">>

\* " ".join([f"{s.speaker}: {s.text}" for s in labeled_segments])
full_transcript(segments) ==
    Join(<<" ">>,
         [i \in 1..Len(segments) |->
             SpeakerText(segments[i].speaker) \o <<":", " ">> \o segments[i].text])

\* goals[0].content if goals else "No specific goal provided."
goal_text(session) ==
    LET goals == GoalsOf(session.user_id)
    IN  IF goals # <<>> THEN goals[1] ELSE NoGoalProvided

\* the state of a handler.  whisper is the number of the transcription it
\* received (0 before that), responses the number of the response each
\* LLM-backed calculator received (0 before that).  tasks: "absent" before the gather call, "created"
\* until the task's first step, "waiting" while its LLM request is in flight,
\* "done" afterwards.  before, interfered and completed are history: the
\* session's row when the request arrived, whether another request committed
\* a report of that session since, and the order in which the tasks finished;
\* after is the session's row when the response was sent, commits the number
\* of reports committed for the session when a GET request read it.
IdleRun ==
    [pc |-> "idle",
     kind |-> "",
     session_id |-> 0,
     file_path |-> "",
     before |-> None,
     after |-> None,
     interfered |-> FALSE,
     commits |-> 0,
     whisper |-> 0,
     tasks |-> [c \in Calcs |-> "absent"],
     results |-> [c \in Calcs |-> None],
     responses |-> [c \in LLMCalcs |-> 0],
     llm_requests |-> [c \in LLMCalcs |-> 0],
     completed |-> <<>>,
     views |-> None,
     performed_at |-> None,
     outcome |-> None,
     http |-> None]

RowOf(tbl, sid) == IF sid \in DOMAIN tbl THEN Some(tbl[sid]) ELSE None

\* whisper_data = WhisperTranscription(segments=labeled_segments,
\*                                     total_duration=response.duration)
whisper_data(run) ==
    LET response == WhisperResponses[run.whisper]
    IN  WhisperTranscription(labeled_segments(response.segments),
                             Some(response.duration))

\* speech_analyzer.calculate(whisper_data) and goal_calculator.calculate(...)
\* are functions of their arguments and of the hash seed: what they return
\* for the goals of each user, the transcription of each response of Whisper
\* and each hash seed, evaluated once
LocalCalculators ==
    [user_id \in SessionIds, w \in 2..Len(WhisperResponses), seed \in {<<>>} |->
        LET data == whisper_data([whisper |-> w])
        IN  [speech |-> SpeechAnalyzer_calculate(data),
             goal |-> GoalAlignmentCalculator_calculate(
                          GoalAlignmentInput(goal_text([user_id |-> user_id]),
                                             full_transcript(data.segments)),
                          seed)]]

\* a handler is in flight from the arrival of its request to its response; a
\* request that arrives is given the first slot with no handler in flight
InFlight(run) ==
    run.pc \in {"read", "stt", "session", "goals", "gather", "commit",
               "committed", "select"}

FreeSlot(all_runs, r) ==
    /\ ~InFlight(all_runs[r])
    /\ \A q \in Requests : q < r => InFlight(all_runs[q])

\* isinstance(res, Exception): a result object carries its class in kind, an
\* exception in type
IsException(obj) == "type" \in DOMAIN obj

\* the object asyncio.gather(..., return_exceptions=True) puts in its list
\* for a finished task: the value returned or the exception raised
ResultObject(outcome) == IF outcome.ok THEN outcome.value ELSE outcome.error

\* variant: the tasks of one gather call take their first steps in any order
TaskMayStart_AnyOrder(run, c) ==
    /\ run.pc = "gather"
    /\ run.tasks[c] = "created"

\* the event loop starts the tasks of one gather call in the order of its
\* arguments: a task takes its first step after the tasks before it took theirs
TaskMayStart(run, c) ==
    /\ run.pc = "gather"
    /\ run.tasks[c] = "created"
    /\ \A i \in 1..Len(CalcOrder) :
          i < IndexOf(c, CalcOrder) + 1 => run.tasks[CalcOrder[i]] # "created"

\* await asyncio.gather(..., return_exceptions=True) returns once every task
\* has finished, whether it returned or raised
GatherReady(run) ==
    /\ run.pc = "gather"
    /\ \A c \in Calcs : run.tasks[c] = "done"

\* variant: the list holds the result objects in the order of completion
GatherResults_CompletionOrder(run) ==
    [i \in 1..Len(CalcOrder) |-> ResultObject(run.results[run.completed[i]][1])]

\* the list gather returns: the result objects in the order of its arguments
GatherResults(run) ==
    [i \in 1..Len(CalcOrder) |-> ResultObject(run.results[CalcOrder[i]][1])]

\* variant: the exception of the task that finished last in the list
FirstException_Last(results, i) == IF \A k \in i..Len(results) : ~IsException(results[k]) THEN None ELSE Some(results[CHOOSE k \in i..Len(results) : IsException(results[k]) /\ \A j \in (k + 1)..Len(results) : ~IsException(results[j])])

\* variant: the loop over the results is left out
FirstException_Unchecked(results, i) == None

\* for res in results: if isinstance(res, Exception): raise res
RECURSIVE FirstException(_, _)
FirstException(results, i) ==
    IF i > Len(results) THEN None
    ELSE IF IsException(results[i]) THEN Some(results[i])
    ELSE FirstException(results, i + 1)

\* variant: a request the service failed is sent again
TaskAfterResponse_Retry(response) == IF response.raises THEN "created" ELSE "done"

\* the task's state after client.messages.create came back: _get_llm_insight
\* returns or re-raises, it never calls the service again
TaskAfterResponse(response) == "done"

\* variant: a report is stored only for a session that has none
Save_KeepFirst(row, report_data) ==
    IF row.report_data # None
    THEN [row EXCEPT !.status = "completed"]
    ELSE [row EXCEPT !.report_data = Some(report_data), !.status = "completed"]

\* session.report_data = ...; session.status = "completed"; commit()
Save(row, report_data) ==
    [row EXCEPT !.report_data = Some(report_data), !.status = "completed"]

\* variant: the service keeps the session it works on in one place, shared by
\* the requests in flight
CommitTarget_Shared(run, all_runs) ==
    LET first == CHOOSE q \in Requests : \A p \in Requests : q <= p
    IN  IF all_runs[first].session_id \in SessionIds
        THEN all_runs[first].session_id
        ELSE run.session_id

\* the row the commit of a run writes: the session it loaded by its own id
CommitTarget(run, all_runs) == run.session_id

\* except ValueError -> 404, except Exception -> 500 (analyze_session);
\* pydantic's ValidationError is a ValueError
IsValueError(e) == e.type \in {"ValueError", "ValidationError"}

HttpResponse(status, body) == [status |-> status, body |-> body]

analyze_session_response(session_id, outcome) ==
    IF outcome.ok
    THEN HttpResponse(200, Some([session_id |-> session_id, status |-> "completed"]))
    ELSE IF IsValueError(outcome.error) THEN HttpResponse(404, None)
    ELSE HttpResponse(500, None)

\* the handler ends: analyze_audio returned or raised, the finally clause
\* removed the file and analyze_session built the response
Finished(run, outcome, row) ==
    [run EXCEPT !.pc = "responded",
                !.after = row,
                !.outcome = Some(outcome),
                !.http = Some(analyze_session_response(run.session_id, outcome))]

\* OneOnOneService.get_report
get_report(tbl, session_id) ==
    LET session == RowOf(tbl, session_id)
    IN  IF session # None /\ session[1].report_data # None
        THEN Some(json_loads(session[1].report_data[1]))
        ELSE None

\* not obj, for an object json.loads returns: a dict is a record, any other
\* value carries its type in t
Falsy(obj) ==
    IF "t" \notin DOMAIN obj THEN DOMAIN obj = {}
    ELSE IF obj.t = "int" THEN obj.int = 0
    ELSE IF obj.t = "float" THEN obj.float[1] = 0
    ELSE IF obj.t = "str" THEN obj.str = ""
    ELSE IF obj.t = "list" THEN obj.list = <<>>
    ELSE obj.t = "null"

\* variant: the endpoint answers 404 to every request
get_session_report_NotFound(tbl, session_id) == HttpResponse(404, None)

\* get_session_report: 404 if not report
get_session_report(tbl, session_id) ==
    LET report == get_report(tbl, session_id)
    IN  IF report = None \/ Falsy(report[1])
        THEN HttpResponse(404, None)
        ELSE HttpResponse(200, Some([session_id |-> session_id,
                                     report |-> report[1]]))

(***************************************************************************)
(* The actions                                                             *)
(***************************************************************************)
Init ==
    /\ api_key \in {ApiKeys[1], ApiKeys[3]}
    /\ hash_seed = <<>>
    /\ sessions = [sid \in SessionIds |->
                      [user_id |-> sid, status |-> "scheduled",
                       report_data |-> None]]
    /\ runs = [r \in Requests |-> IdleRun]
    /\ temp_audio = {}
    /\ started = 0
    /\ committed = [sid \in SessionIds |-> <<>>]
    /\ probe = None

\* POST /sessions/{session_id}/analyze arrives with an upload of this name:
\* the clock is read as t, the file of that path is created, or emptied if
\* the directory holds it already, and analyze_audio awaits audio_file.read()
BeginAnalyze(r, sid, t, filename) ==
    /\ FreeSlot(runs, r)
    /\ started < MaxRequests
    /\ started' = started + 1
    /\ runs' = [runs EXCEPT ![r] =
                  [IdleRun EXCEPT !.pc = "read",
                                  !.kind = "analyze",
                                  !.session_id = sid,
                                  !.file_path = file_path(sid, t, filename),
                                  !.before = RowOf(sessions, sid)]]
    /\ temp_audio' = temp_audio \cup {file_path(sid, t, filename)}
    /\ UNCHANGED <<api_key, hash_seed, sessions, committed, probe>>

\* audio_file.read() comes back: the content is written to the file the
\* handler holds open and the path is opened again.  When another handler of
\* the same path has removed the file meanwhile, open raises and the finally
\* clause finds nothing to remove; else analyze_audio awaits the
\* transcription, holding the file open (a file that is removed while it is
\* open stays readable and writable for its holder)
Uploaded(r) ==
    /\ runs[r].pc = "read"
    /\ runs' = [runs EXCEPT ![r] =
                  IF runs[r].file_path \in temp_audio
                  THEN [runs[r] EXCEPT !.pc = "stt"]
                  ELSE Finished(runs[r],
                                Raised(FileNotFoundError(runs[r].file_path)),
                                RowOf(sessions, runs[r].session_id))]
    /\ UNCHANGED <<api_key, hash_seed, sessions, temp_audio, started,
                   committed, probe>>

\* the transcription comes back: it raised, or the segments are labelled and
\* analyze_audio awaits the select of the session
Transcribed(r, i) ==
    LET run == runs[r]
        response == WhisperResponses[i]
    IN  /\ run.pc = "stt"
        /\ IF response.raises
           THEN /\ runs' = [runs EXCEPT ![r] =
                              Finished(run, Raised(APIError("transcription")),
                                       RowOf(sessions, run.session_id))]
                /\ temp_audio' = temp_audio \ {run.file_path}
           ELSE /\ runs' = [runs EXCEPT ![r] =
                              [run EXCEPT !.pc = "session", !.whisper = i]]
                /\ UNCHANGED temp_audio
        /\ UNCHANGED <<api_key, hash_seed, sessions, started, committed, probe>>

\* ValueError(f"Session {session_id} not found")
SessionNotFound(session_id) ==
    ValueError("Session " \o IntStr(session_id) \o " not found")

\* the select of the session comes back: without a row analyze_audio raises,
\* else it awaits the goals of the session's user
SessionLoaded(r) ==
    LET run == runs[r]
        session == RowOf(sessions, run.session_id)
    IN  /\ run.pc = "session"
        /\ IF session = None
           THEN /\ runs' = [runs EXCEPT ![r] =
                              Finished(run, Raised(SessionNotFound(run.session_id)),
                                       session)]
                /\ temp_audio' = temp_audio \ {run.file_path}
           ELSE /\ runs' = [runs EXCEPT ![r].pc = "goals"]
                /\ UNCHANGED temp_audio
        /\ UNCHANGED <<api_key, hash_seed, sessions, started, committed, probe>>

\* the goals come back: the inputs are built, the four tasks are created and
\* analyze_audio awaits gather
GoalsLoaded(r) ==
    /\ runs[r].pc = "goals"
    /\ runs' = [runs EXCEPT ![r].pc = "gather",
                            ![r].tasks = [c \in Calcs |-> "created"]]
    /\ UNCHANGED <<api_key, hash_seed, sessions, temp_audio, started,
                   committed, probe>>

\* variant: a task that raises cancels the tasks that have not finished
TaskDone_Cancelling(run, c, outcome) ==
    LET cancelled == Some(Raised([type |-> "CancelledError", msg |-> ""]))
        pending == SelectSeq(CalcOrder, LAMBDA d : d # c /\ run.tasks[d] # "done")
    IN  IF outcome.ok
        THEN [run EXCEPT !.tasks[c] = "done",
                         !.results[c] = Some(outcome),
                         !.completed = Append(@, c)]
        ELSE [run EXCEPT !.tasks = [d \in Calcs |-> "done"],
                         !.results = [d \in Calcs |->
                                         IF d = c THEN Some(outcome)
                                         ELSE IF run.tasks[d] = "done" THEN @[d]
                                         ELSE cancelled],
                         !.completed = Append(@, c) \o pending]

\* a task finished with this outcome
TaskDone(run, c, outcome) ==
    [run EXCEPT !.tasks[c] = "done",
                !.results[c] = Some(outcome),
                !.completed = Append(@, c)]

\* the first and only step of speech_analyzer.calculate(whisper_data)
RunSpeech(r) ==
    LET run == runs[r]
    IN  /\ TaskMayStart(run, "speech")
        /\ runs' = [runs EXCEPT ![r] =
                      TaskDone(run, "speech",
                               LocalCalculators[sessions[run.session_id].user_id,
                                                run.whisper, hash_seed].speech)]
        /\ UNCHANGED <<api_key, hash_seed, sessions, temp_audio, started,
                       committed, probe>>

\* the first and only step of goal_calculator.calculate(...)
RunGoal(r) ==
    LET run == runs[r]
    IN  /\ TaskMayStart(run, "goal")
        /\ runs' = [runs EXCEPT ![r] =
                      TaskDone(run, "goal",
                               LocalCalculators[sessions[run.session_id].user_id,
                                                run.whisper, hash_seed].goal)]
        /\ UNCHANGED <<api_key, hash_seed, sessions, temp_audio, started,
                       committed, probe>>

\* the first step of an LLM-backed calculate: it raises for a missing key,
\* else it sends the request and awaits the response
StartLLM(r, c) ==
    LET run == runs[r]
        error == LLM_before_request(api_key)
    IN  /\ c \in LLMCalcs
        /\ TaskMayStart(run, c)
        /\ runs' = [runs EXCEPT ![r] =
                      IF error # None
                      THEN TaskDone(run, c, Raised(error[1]))
                      ELSE [run EXCEPT !.tasks[c] = "waiting",
                                       !.llm_requests[c] = @ + 1]]
        /\ UNCHANGED <<api_key, hash_seed, sessions, temp_audio, started,
                       committed, probe>>

\* client.messages.create comes back for an LLM-backed calculator
LLMReturn(r, c, i) ==
    LET run == runs[r]
        response == LLMResponses(c)[i]
        heard == [run EXCEPT !.responses[c] = i]
    IN  /\ c \in LLMCalcs
        /\ run.pc = "gather"
        /\ run.tasks[c] = "waiting"
        /\ runs' = [runs EXCEPT ![r] =
                      IF TaskAfterResponse(response) = "done"
                      THEN TaskDone(heard, c,
                                    LLM_after_request(response, OutputModelOf(c)))
                      ELSE [heard EXCEPT !.tasks[c] = TaskAfterResponse(response)]]
        /\ UNCHANGED <<api_key, hash_seed, sessions, temp_audio, started,
                       committed, probe>>

\* the values of a function
Values(f) == {f[x] : x \in DOMAIN f}

\* the results calculator c returned among these outcomes of the calculators
ReturnedBy(outcomes, c) == {o[c].value : o \in {o \in outcomes : o[c].ok}}

\* the results a calculator without an external call returns in the service
LocalResults(c) == ReturnedBy(Values(LocalCalculators), c)

\* the results an LLM-backed calculator returns in the service
LLMResults(c) ==
    {o.value : o \in {o \in {LLM_after_request(response, OutputModelOf(c)) :
                                 response \in Range(LLMResponses(c))} : o.ok}}

\* formatter.format_manager_report(...) and formatter.format_member_report(...)
\* are functions of their arguments: what the two calls return for each four
\* results the calculators return in the service, evaluated once
ServiceReportsOf(local) ==
    [speech_res \in ReturnedBy(local, "speech"), goal_res \in ReturnedBy(local, "goal"),
     coaching_res \in LLMResults("coaching"), safety_res \in LLMResults("safety") |->
        [manager |-> format_manager_report(speech_res, coaching_res, safety_res,
                                           goal_res),
         member |-> format_member_report(goal_res, speech_res, coaching_res)]]

ServiceReports == ServiceReportsOf(Values(LocalCalculators))

\* the entry of a table of a function's values, or the value computed for an
\* argument the table does not hold
Tabulated(table, key, value) == IF key \in DOMAIN table THEN table[key] ELSE value

\* manager_report = formatter.format_manager_report(speech_res, coaching_res,
\*                                                  safety_res, goal_res)
\* member_report = formatter.format_member_report(goal_res, speech_res,
\*                                                coaching_res)
FormattedReports(speech_res, goal_res, coaching_res, safety_res) ==
    Tabulated(ServiceReports, <<speech_res, goal_res, coaching_res, safety_res>>,
              [manager |-> format_manager_report(speech_res, coaching_res,
                                                 safety_res, goal_res),
               member |-> format_member_report(goal_res, speech_res, coaching_res)])

\* analyze_audio after gather returned: the first exception of the list is
\* raised, else an exception of a formatter, else the clock is read as t,
\* the merged report is assigned to the session object and analyze_audio
\* awaits the commit
AfterGather(r, run, exception, row, reports, t) ==
           IF exception # None
           THEN /\ runs' = [runs EXCEPT ![r] = Finished(run, Raised(exception[1]), row)]
                /\ temp_audio' = temp_audio \ {run.file_path}
           ELSE IF ~reports.manager.ok
           THEN /\ runs' = [runs EXCEPT ![r] = Finished(run, reports.manager, row)]
                /\ temp_audio' = temp_audio \ {run.file_path}
           ELSE IF ~reports.member.ok
           THEN /\ runs' = [runs EXCEPT ![r] = Finished(run, reports.member, row)]
                /\ temp_audio' = temp_audio \ {run.file_path}
           ELSE /\ runs' = [runs EXCEPT ![r] =
                              [run EXCEPT
                                 !.pc = "commit",
                                 !.views = Some([manager |-> reports.manager.value,
                                                 member |-> reports.member.value]),
                                 !.performed_at = Some(t)]]
                /\ UNCHANGED temp_audio

\* the reports of the list gather returned, when it holds no exception
ReportsOf(results) == FormattedReports(results[1], results[2], results[3], results[4])

GatherReturned(r, run, results, t) ==
    AfterGather(r, run, FirstException(results, 1), RowOf(sessions, run.session_id),
                ReportsOf(results), t)

\* gather returns: the first exception of the list is raised, else the two
\* reports are formatted, the clock is read as t, the merged report is
\* assigned to the session object and analyze_audio awaits the commit
GatherDone(r, t) ==
    /\ GatherReady(runs[r])
    /\ GatherReturned(r, runs[r], GatherResults(runs[r]), t)
    /\ UNCHANGED <<api_key, hash_seed, sessions, started, committed, probe>>

\* final_report of a run that awaits its commit or has committed
final_report(run) ==
    [manager |-> run.views[1].manager,
     member |-> run.views[1].member,
     performed_at |-> run.performed_at[1]]

\* the database applies the commit of a run: report_data and status of the
\* session's row are written
Commit(r) ==
    LET run == runs[r]
        target == CommitTarget(run, runs)
    IN  /\ run.pc = "commit"
        /\ sessions' = [sessions EXCEPT
                          ![target] = Save(@, json_dumps(final_report(run)))]
        /\ committed' = [committed EXCEPT ![target] = Append(@, final_report(run))]
        /\ runs' = [q \in Requests |->
                      IF q = r THEN [run EXCEPT !.pc = "committed"]
                      ELSE IF InFlight(runs[q]) /\ runs[q].session_id = target
                      THEN [runs[q] EXCEPT !.interfered = TRUE]
                      ELSE runs[q]]
        /\ UNCHANGED <<api_key, hash_seed, temp_audio, started, probe>>

\* the commit comes back: analyze_audio returns session.report_data, the
\* finally clause removes the file and the request is answered
Respond(r) ==
    LET run == runs[r]
    IN  /\ run.pc = "committed"
        /\ runs' = [runs EXCEPT ![r] =
                      Finished(run, Returned(json_dumps(final_report(run))),
                               RowOf(sessions, run.session_id))]
        /\ temp_audio' = temp_audio \ {run.file_path}
        /\ UNCHANGED <<api_key, hash_seed, sessions, started, committed, probe>>

\* GET /sessions/{session_id}/report arrives: get_report awaits the select of
\* the session
FetchReport(r, sid) ==
    /\ FreeSlot(runs, r)
    /\ started < MaxRequests
    /\ started' = started + 1
    /\ runs' = [runs EXCEPT ![r] =
                  [IdleRun EXCEPT !.pc = "select",
                                  !.kind = "report",
                                  !.session_id = sid]]
    /\ UNCHANGED <<api_key, hash_seed, sessions, temp_audio, committed, probe>>

\* the select comes back: the report is loaded from the row and the request
\* is answered
ReportRead(r) ==
    LET run == runs[r]
        sid == run.session_id
    IN  /\ run.pc = "select"
        /\ runs' = [runs EXCEPT ![r] =
                      [run EXCEPT !.pc = "responded",
                                  !.commits = IF sid \in SessionIds
                                              THEN Len(committed[sid]) ELSE 0,
                                  !.http = Some(get_session_report(sessions, sid))]]
        /\ UNCHANGED <<api_key, hash_seed, sessions, temp_audio, started,
                       committed, probe>>

Next ==
    \/ \E r \in Requests, sid \in RequestedIds :
          \E t \in Timestamps, filename \in Filenames :
              BeginAnalyze(r, sid, t, filename)
    \/ \E r \in Requests : Uploaded(r)
    \/ \E r \in Requests, i \in 1..Len(WhisperResponses) : Transcribed(r, i)
    \/ \E r \in Requests : SessionLoaded(r)
    \/ \E r \in Requests : GoalsLoaded(r)
    \/ \E r \in Requests : RunSpeech(r)
    \/ \E r \in Requests : RunGoal(r)
    \/ \E r \in Requests, c \in LLMCalcs : StartLLM(r, c)
    \/ \E r \in Requests, c \in LLMCalcs :
          \E i \in 1..Len(LLMResponses(c)) : LLMReturn(r, c, i)
    \/ \E r \in Requests, t \in Timestamps : GatherDone(r, t)
    \/ \E r \in Requests : Commit(r)
    \/ \E r \in Requests : Respond(r)
    \/ \E r \in Requests, sid \in RequestedIds : FetchReport(r, sid)
    \/ \E r \in Requests : ReportRead(r)

Spec == Init /\ [][Next]_vars


(***************************************************************************)
(* One call of an LLM-backed calculator on its own                         *)
(*                                                                         *)
(* CoachingStyleCalculator.calculate and SafetyScoreCalculator.calculate   *)
(* build a prompt and return what _get_llm_insight returns.  The service   *)
(* may answer with any content: the tool inputs below vary one field of a  *)
(* valid input.                                                            *)
(***************************************************************************)
\* the longest content of a response
MaxBlocks == 2

\* the values a score may have in a tool input
ScoreValues ==
    {JInt(0), JInt(100), JInt(101), JInt(-1), JFloat(Rat(171, 2)),
     JFloat(RatInt(85)), JStr("85"), JStr("101"), JStr("high"), JNull}

Without(input, name) == [f \in DOMAIN input \ {name} |-> input[f]]

With(input, name, value) ==
    [f \in DOMAIN input \cup {name} |-> IF f = name THEN value ELSE input[f]]

SafetyIndicatorOk ==
    [category |-> JStr("trust"), description |-> JStr("Thanks the member"),
     impact |-> JStr("positive")]

StyleExampleOk ==
    [text |-> JStr("What do you think?"), style |-> JStr("coaching"),
     reason |-> JStr("Open question")]

CoachingInputs ==
    {CoachingInputOk}
    \cup {With(CoachingInputOk, "directive_score", v) : v \in ScoreValues}
    \cup {Without(CoachingInputOk, "coaching_score"),
          Without(CoachingInputOk, "improvement_feedback"),
          With(CoachingInputOk, "balance_assessment", JInt(1)),
          With(CoachingInputOk, "key_examples",
               JList(<<StyleExampleOk, With(StyleExampleOk, "note", JStr("x"))>>)),
          With(CoachingInputOk, "key_examples",
               JList(<<Without(StyleExampleOk, "reason")>>))}

SafetyInputs ==
    {SafetyInputOk}
    \cup {With(SafetyInputOk, "safety_score", v) : v \in ScoreValues}
    \cup {Without(SafetyInputOk, "safety_score"),
          Without(SafetyInputOk, "score_rationale"),
          With(SafetyInputOk, "manager_behavior_analysis", JNull),
          With(SafetyInputOk, "risk_factors",
               JList(<<With(SafetyIndicatorOk, "quote", JNull), SafetyIndicatorOk,
                       With(With(SafetyIndicatorOk, "quote", JStr("Thanks")),
                            "note", JStr("x"))>>)),
          With(SafetyInputOk, "positive_factors",
               JList(<<Without(SafetyIndicatorOk, "impact")>>))}

InputsOf(calc) == IF calc = "coaching" THEN CoachingInputs ELSE SafetyInputs

\* the content blocks of a response to a calculator
BlocksOf(calc) ==
    {TextBlock, ToolUseBlock("other_tool", ValidInputOf(calc))}
    \cup {ToolUseBlock(tool_name, input) : input \in InputsOf(calc)}

ContentsOf(calc) ==
    UNION {[1..n -> BlocksOf(calc)] : n \in 0..MaxBlocks}

\* what client.messages.create can do for a call
ProbeResponses(calc) ==
    {ServiceFailure} \cup {Message(content) : content \in ContentsOf(calc)}

\* a call of calculate: its calculator, its position, the requests it has
\* sent, the response it received and its outcome
NewCall(calc) ==
    [calc |-> calc, pc |-> "created", requests |-> 0,
     response |-> None, outcome |-> None]

InitLLM ==
    /\ api_key \in Range(ApiKeys)
    /\ hash_seed = <<>>
    /\ sessions = [sid \in SessionIds |->
                      [user_id |-> sid, status |-> "scheduled",
                       report_data |-> None]]
    /\ runs = [r \in Requests |-> IdleRun]
    /\ temp_audio = {}
    /\ started = 0
    /\ committed = [sid \in SessionIds |-> <<>>]
    /\ probe \in {Some(NewCall(calc)) : calc \in LLMCalcs}

\* the call's first step: it raises for a missing key, else it sends the
\* request and awaits the response
CallStart ==
    LET call == probe[1]
        error == LLM_before_request(api_key)
    IN  /\ call.pc = "created"
        /\ probe' = Some(IF error # None
                         THEN [call EXCEPT !.pc = "done",
                                           !.outcome = Some(Raised(error[1]))]
                         ELSE [call EXCEPT !.pc = "waiting",
                                           !.requests = @ + 1])
        /\ UNCHANGED <<api_key, hash_seed, sessions, runs, temp_audio,
                       started, committed>>

\* client.messages.create comes back
CallReturn ==
    LET call == probe[1]
    IN  /\ call.pc = "waiting"
        /\ \E response \in ProbeResponses(call.calc) :
              LET heard == [call EXCEPT !.response = Some(response)]
              IN  probe' =
                      Some(IF TaskAfterResponse(response) = "done"
                           THEN [heard EXCEPT
                                   !.pc = "done",
                                   !.outcome =
                                       Some(LLM_after_request(
                                                response,
                                                OutputModelOf(call.calc)))]
                           ELSE [heard EXCEPT !.pc = TaskAfterResponse(response)])
        /\ UNCHANGED <<api_key, hash_seed, sessions, runs, temp_audio,
                       started, committed>>

NextLLM ==
    \/ CallStart
    \/ CallReturn

SpecLLM == InitLLM /\ [][NextLLM]_vars

(***************************************************************************)
(* One call of SpeechAnalyzer.calculate on a transcription                 *)
(*                                                                         *)
(* Times are tenths of a second.  The identifiers are the defaults of      *)
(* WhisperTranscription, as in OneOnOneService.analyze_session; "guest"    *)
(* is a speaker that is neither.  A total_duration is an audio length,     *)
(* absent, 0.0 or positive.  A generated segment starts before 0, has no   *)
(* length, ends before it starts, or is one of three that follow or        *)
(* overlap one another.                                                    *)
(***************************************************************************)
MaxSegments == 2

\* start_time and end_time of the generated segments
ProbeTimes ==
    {<<-10, 0>>, <<0, 0>>, <<0, 10>>, <<0, 31>>, <<20, 10>>, <<20, 31>>}

ProbeSegments ==
    {SpeechSegment(speaker, TextOk, times[1], times[2]) :
        speaker \in {"manager", "member", "guest"},
        times \in ProbeTimes}

\* the transcription of test_speech_analyzer
TestTranscription ==
    WhisperTranscription(
        << SpeechSegment("manager", TextOk, 0, 35),
           SpeechSegment("member", TextOk, 40, 52),
           SpeechSegment("manager", TextOk, 60, 90),
           SpeechSegment("member", TextOk, 95, 140),
           SpeechSegment("manager", TextOk, 150, 175),
           SpeechSegment("member", TextOk, 180, 235) >>,
        Some(300))

\* a pause, then a segment with one nested in it and one overlapping it
OverlappingTranscription ==
    WhisperTranscription(
        << SpeechSegment("manager", TextOk, 0, 10),
           SpeechSegment("member", TextOk, 20, 50),
           SpeechSegment("manager", TextOk, 30, 40),
           SpeechSegment("member", TextOk, 35, 60) >>,
        None)

\* three segments of no length, 0.3 s and 0.6 s apart
PausesTranscription ==
    WhisperTranscription(
        << SpeechSegment("manager", TextOk, 0, 0),
           SpeechSegment("member", TextOk, 3, 3),
           SpeechSegment("manager", TextOk, 9, 9) >>,
        None)

ProbeTranscriptions ==
    {TestTranscription, OverlappingTranscription, PausesTranscription}
    \cup {WhisperTranscription(segments, total_duration) :
            segments \in UNION {[1..n -> ProbeSegments] : n \in 0..MaxSegments},
            total_duration \in {None, Some(0), Some(50)}}

InitSpeech ==
    /\ api_key = ApiKeys[3]
    /\ hash_seed = <<>>
    /\ sessions = [sid \in SessionIds |->
                      [user_id |-> sid, status |-> "scheduled",
                       report_data |-> None]]
    /\ runs = [r \in Requests |-> IdleRun]
    /\ temp_audio = {}
    /\ started = 0
    /\ committed = [sid \in SessionIds |-> <<>>]
    /\ probe \in {Some([calc |-> "speech", pc |-> "created", given |-> data,
                        data |-> data, outcome |-> None]) :
                     data \in ProbeTranscriptions}

\* variant: data.segments.sort(key=lambda s: s.start_time)
SegmentsAfterCalculate_SortedInPlace(data) == SortAscStable(data.segments, [i \in 1..Len(data.segments) |-> RatInt(data.segments[i].start_time)])

\* data.segments after the call: sorted() builds a new list and the loops
\* read the segments, so the list of the caller keeps its order
SegmentsAfterCalculate(data) == data.segments

\* await analyzer.calculate(data)
AnalyzeSpeech ==
    LET call == probe[1]
    IN  /\ call.pc = "created"
        /\ probe' = Some([call EXCEPT
                            !.pc = "done",
                            !.outcome = Some(SpeechAnalyzer_calculate(call.data)),
                            !.data.segments = SegmentsAfterCalculate(call.data)])
        /\ UNCHANGED <<api_key, hash_seed, sessions, runs, temp_audio,
                       started, committed>>

NextSpeech == AnalyzeSpeech

SpecSpeech == InitSpeech /\ [][NextSpeech]_vars

(***************************************************************************)
(* One call of GoalAlignmentCalculator.calculate on a goal text and a      *)
(* conversation text, and the categorisation of a score                    *)
(*                                                                         *)
(* A generated goal text is up to MaxWords words joined by spaces; a       *)
(* generated conversation is the transcript of one segment of the manager  *)
(* with up to MaxWords words.  "would" is a stop word.                     *)
(***************************************************************************)
MaxWords == 2

\* words of the generated texts
WordSales ==
    <<"S", "a", "l", "e", "s">>

WordGrowth ==
    <<"g", "r", "o", "w", "t", "h">>

WordWould ==
    <<"w", "o", "u", "l", "d">>

WordMarket ==
    <<"m", "a", "r", "k", "e", "t">>

\* ten spaces
GoalBlank ==
    <<" ", " ", " ", " ", " ", " ", " ", " ", " ", " ">>

\* nine characters
GoalNineChars ==
    <<"G", "r", "o", "w", " ", "s", "a", "l", "e">>

\* ten characters, eight after trimming
GoalPadded ==
    <<" ", "s", "a", "l", "e", "s", " ", "u", "p", " ">>

\* ten characters and no word
GoalNoKeywords ==
    <<"2", "0", "2", "4", "-", "1", "2", "-", "3", "1">>

\* one keyword three times
GoalRepeated ==
    <<"s", "a", "l", "e", "s", " ", "s", "a", "l", "e", "s", " ", "s",
      "a", "l", "e", "s">>

\* seven keywords
GoalSevenKeywords ==
    <<"p", "l", "a", "n", " ", "c", "o", "d", "e", " ", "t", "e", "s",
      "t", " ", "s", "h", "i", "p", " ", "d", "o", "c", "s", " ", "d",
      "e", "m", "o", " ", "t", "u", "n", "e">>

\* twenty spaces
TalkBlank ==
    <<" ", " ", " ", " ", " ", " ", " ", " ", " ", " ", " ", " ", " ",
      " ", " ", " ", " ", " ", " ", " ">>

\* nineteen characters
TalkNineteenChars ==
    <<"m", "a", "n", "a", "g", "e", "r", ":", " ", "s", "a", "l", "e",
      "s", " ", "t", "e", "a", "m">>

\* twenty characters
TalkTwentyChars ==
    <<"m", "a", "n", "a", "g", "e", "r", ":", " ", "s", "a", "l", "e",
      "s", " ", "t", "o", "d", "a", "y">>

\* twenty characters and no word
TalkNoKeywords ==
    <<"1", "2", "3", "4", "5", "6", "7", "8", "9", "0", " ", "1", "2",
      "3", "4", "5", "6", "7", "8", "9">>

\* the keyword of GoalRepeated four times
TalkRepeated ==
    <<"m", "a", "n", "a", "g", "e", "r", ":", " ", "s", "a", "l", "e",
      "s", " ", "s", "a", "l", "e", "s", " ", "s", "a", "l", "e", "s",
      " ", "s", "a", "l", "e", "s">>

\* the second and the fourth keyword of GoalSevenKeywords
TalkCodeShip ==
    <<"m", "a", "n", "a", "g", "e", "r", ":", " ", "c", "o", "d", "e",
      " ", "s", "h", "i", "p", " ", "s", "o", "o", "n">>

\* the second keyword of GoalSevenKeywords only
TalkCodeReview ==
    <<"m", "a", "n", "a", "g", "e", "r", ":", " ", "c", "o", "d", "e",
      " ", "r", "e", "v", "i", "e", "w", " ", "s", "o", "o", "n">>

\* five keywords, each once
GoalFiveKeywords ==
    <<"k", "c", " ", "k", "d", " ", "k", "a", " ", "k", "e", " ", "k",
      "b", " ", "0", "1", "2", "3", "4", "5", "6", "7", "8", "9">>

\* the first three keywords of GoalFiveKeywords: their relevance scores 0.2,
\* 0.1466666666666667 and 0.09333333333333334 have the sum
\* 0.44000000000000006, and 0.44 when they are added one after another
TalkThreeOfFive ==
    <<"k", "c", " ", "k", "d", " ", "k", "a", " ", "0", "1", "2", "3",
      "4", "5", "6", "7", "8", "9", "0", "1", "2", "3", "4", "5", "6",
      "7", "8", "9">>

\* four keywords, each once
GoalFourKeywords ==
    <<"a", "a", " ", "b", "b", " ", "c", "c", " ", "d", "d">>

\* the four keywords of GoalFourKeywords in the opposite order: every matched
\* topic has the same relevance
TalkFourReversed ==
    <<"d", "d", " ", "c", "c", " ", "b", "b", " ", "a", "a", " ", "1",
      "2", "3", "4", "5", "6", "7", "8", "9">>

\* three keywords, each once
GoalThreeKeywords ==
    <<"k", "x", " ", "k", "y", " ", "k", "z", " ", "1", "2">>

\* the three keywords of GoalThreeKeywords in the opposite order
TalkThreeReversed ==
    <<"k", "z", " ", "k", "y", " ", "k", "x", " ", "1", "2", "3", "4",
      "5", "6", "7", "8", "9", "0", "1", "2", "3">>

\* seven keywords, each twice
GoalSevenTwice ==
    <<"k", "a", " ", "k", "b", " ", "k", "c", " ", "q", "d", " ", "q",
      "e", " ", "q", "f", " ", "q", "g", " ", "k", "a", " ", "k", "b",
      " ", "k", "c", " ", "q", "d", " ", "q", "e", " ", "q", "f", " ",
      "q", "g", " ", "0", "1", "2", "3", "4", "5", "6", "7", "8",
      "9">>

\* the first three keywords of GoalSevenTwice, each three times
TalkThreeThrice ==
    <<"k", "a", " ", "k", "b", " ", "k", "c", " ", "k", "a", " ", "k",
      "b", " ", "k", "c", " ", "k", "a", " ", "k", "b", " ", "k", "c",
      " ", "0", "1", "2", "3", "4", "5", "6", "7", "8", "9", "0", "1",
      "2", "3", "4", "5", "6", "7", "8", "9">>

KeywordLetters ==
    <<"a", "b", "c", "d", "e", "f", "g", "h", "i", "j", "k", "l", "m",
      "n", "o", "p", "q", "r", "s", "t", "u", "v", "w", "x", "y", "z">>

ConversationKeyword(i) == <<"c", KeywordLetters[i]>>
GoalOnlyKeyword(i) == <<"g", KeywordLetters[i]>>

\* the letter x, then 32 different words of two letters, then the last of
\* them once more: more keywords than MAX_KEYWORDS
TalkManyKeywords ==
    Join(<<" ">>,
         <<<<"x">>>>
         \o [i \in 1..26 |-> ConversationKeyword(i)]
         \o [i \in 1..6 |-> GoalOnlyKeyword(i)]
         \o <<GoalOnlyKeyword(6)>>)

\* the sequences of up to MaxWords of the words
Phrases(words) ==
    {Join(<<" ">>, ws) : ws \in UNION {[1..n -> words] : n \in 0..MaxWords}}

ProbeGoalTexts ==
    Phrases({WordSales, WordGrowth, WordWould})
    \cup {GoalSales, NoGoalProvided, GoalBlank, GoalNineChars, GoalPadded,
          GoalNoKeywords, GoalRepeated, GoalSevenKeywords, GoalFourKeywords,
          GoalThreeKeywords, GoalSevenTwice, GoalFiveKeywords}

ProbeConversations ==
    {full_transcript(<<SpeechSegment("manager", text, 0, 0)>>) :
        text \in Phrases({Lower(WordSales), WordGrowth, WordMarket})}
    \cup {<<>>, TalkBlank, TalkNineteenChars, TalkTwentyChars, TalkNoKeywords,
          TalkRepeated, TalkCodeShip, TalkCodeReview, TalkManyKeywords,
          TalkFourReversed, TalkThreeReversed, TalkThreeThrice, TalkThreeOfFive}

\* the scores 0.00, 0.01, ..., 1.00
ProbeScores == {FloatOfRatio(k, 100) : k \in 0..100}

\* len(set(goal_keywords) & set(conversation_keywords)) of two texts
CommonKeywordCount(goal, conversation) ==
    Cardinality(Range(_extract_keywords(goal))
                \cap Range(_extract_keywords(conversation)))

InitGoal ==
    /\ api_key = ApiKeys[3]
    /\ sessions = [sid \in SessionIds |->
                      [user_id |-> sid, status |-> "scheduled",
                       report_data |-> None]]
    /\ runs = [r \in Requests |-> IdleRun]
    /\ temp_audio = {}
    /\ started = 0
    /\ committed = [sid \in SessionIds |-> <<>>]
    /\ \/ \E goal \in ProbeGoalTexts, conversation \in ProbeConversations :
              /\ probe = Some([calc |-> "goal", pc |-> "created",
                               data |-> GoalAlignmentInput(goal, conversation),
                               outcome |-> None])
              /\ hash_seed \in HashSeeds(CommonKeywordCount(goal, conversation))
       \/ \E score \in ProbeScores :
              /\ probe = Some([calc |-> "categorize", pc |-> "created",
                               alignment_score |-> score, outcome |-> None])
              /\ hash_seed = <<>>

\* await calculator.calculate(data)
AlignGoal ==
    LET call == probe[1]
    IN  /\ call.calc = "goal"
        /\ call.pc = "created"
        /\ probe' = Some([call EXCEPT
                            !.pc = "done",
                            !.outcome =
                                Some(GoalAlignmentCalculator_calculate(
                                         call.data, hash_seed))])
        /\ UNCHANGED <<api_key, hash_seed, sessions, runs, temp_audio,
                       started, committed>>

\* the two lines of calculate that derive the category and the flag from
\* the score
Categorize ==
    LET call == probe[1]
    IN  /\ call.calc = "categorize"
        /\ call.pc = "created"
        /\ probe' = Some([call EXCEPT
                            !.pc = "done",
                            !.outcome =
                                Some([alignment_category |->
                                          _categorize_alignment(
                                              call.alignment_score),
                                      is_aligned |->
                                          is_aligned(call.alignment_score)])])
        /\ UNCHANGED <<api_key, hash_seed, sessions, runs, temp_audio,
                       started, committed>>

NextGoal ==
    \/ AlignGoal
    \/ Categorize

SpecGoal == InitGoal /\ [][NextGoal]_vars

(***************************************************************************)
(* Calls of ReportFormatter on one aggregate of four calculator results    *)
(*                                                                         *)
(* The speech and LLM results are those the calculators return for a few   *)
(* inputs.  A goal result is one the calculator returned for a text, or a  *)
(* result with up to MaxConvKeywords conversation keywords "ca", "cb", ... *)
(* of which some are matched, and missing topics "ga", "gb", ...           *)
(***************************************************************************)
MaxCalls == 3
MaxConvKeywords == 22

\* the places of a set in increasing order
RECURSIVE PlacesInOrder(_)
PlacesInOrder(places) ==
    IF places = {} THEN <<>>
    ELSE LET least == CHOOSE i \in places : \A j \in places : i <= j
         IN  <<least>> \o PlacesInOrder(places \ {least})

\* the relevance of a topic matched at place k: the earlier the higher
ProbeRelevance == [k \in 1..(MaxConvKeywords + 1) |-> FloatOfRatio(1, 5 + k)]

\* a GoalAlignmentResult with n conversation keywords, those at the given
\* places matched (the earlier the more relevant), m missing topics and the
\* given alignment_score
GoalResultScored(n, places, m, alignment_score) ==
    LET order == PlacesInOrder(places)
        matched_topics ==
            [k \in 1..Len(order) |->
                [keyword |-> ConversationKeyword(order[k]),
                 goal_frequency |-> 1,
                 conversation_frequency |-> 1,
                 relevance_score |-> ProbeRelevance[order[k]]]]
        missing_topics == [k \in 1..m |-> GoalOnlyKeyword(k)]
        goal_keywords ==
            [k \in 1..Len(order) |-> ConversationKeyword(order[k])]
            \o missing_topics
    IN  [kind |-> "GoalAlignmentResult",
         alignment_score |-> alignment_score,
         matched_topics |-> matched_topics,
         matched_topic_count |-> Len(matched_topics),
         goal_keywords |-> goal_keywords,
         conversation_keywords |-> [k \in 1..n |-> ConversationKeyword(k)],
         goal_coverage |-> _calculate_goal_coverage(
                               goal_keywords,
                               [k \in 1..n |-> ConversationKeyword(k)]),
         is_aligned |-> is_aligned(alignment_score),
         alignment_category |-> _categorize_alignment(alignment_score),
         missing_topics |-> missing_topics]

\* ... with the share of the matched goal keywords as its score
GoalResultWith(n, places, m) ==
    GoalResultScored(n, places, m,
                     IF Cardinality(places) + m = 0 THEN Float_0_0
                     ELSE FloatOfRatio(Cardinality(places),
                                       Cardinality(places) + m))

ProbeGoalResults ==
    UNION {{GoalResultWith(n, places, m) :
               places \in {{}, {i \in 1..n : i % 3 = 0},
                           {i \in 1..n : i > n - 7}, 1..n},
               m \in {0, 2, 5}} :
           n \in 0..MaxConvKeywords}
    \cup {GoalResultScored(3, {1, 2}, 5, FloatOfRatio(score, 100)) :
            score \in {29, 57}}
    \cup {GoalAlignmentCalculator_calculate(GoalAlignmentInput(in[1], in[2]),
                                            <<>>).value :
            in \in {<<GoalSevenKeywords, TalkCodeShip>>,
                    <<GoalRepeated, TalkRepeated>>,
                    <<GoalPadded, TalkTwentyChars>>,
                    <<GoalNoKeywords, TalkTwentyChars>>}}

ProbeSpeechResults ==
    {SpeechAnalyzer_calculate(data).value :
        data \in {TestTranscription, OverlappingTranscription,
                  WhisperTranscription(
                      <<SpeechSegment("manager", TextOk, 0, 10)>>, None),
                  WhisperTranscription(
                      <<SpeechSegment("member", TextOk, 0, 0)>>, None),
                  WhisperTranscription(
                      <<SpeechSegment("manager", TextOk, 0, 10),
                        SpeechSegment("member", TextOk, 20, 30)>>, Some(50)),
                  WhisperTranscription(
                      <<SpeechSegment("manager", TextOk, 0, 80),
                        SpeechSegment("member", TextOk, 80, 100)>>, None),
                  WhisperTranscription(
                      <<SpeechSegment("manager", TextOk, 0, 42),
                        SpeechSegment("member", TextOk, 42, 100)>>, None)}}

ProbeStyleResults ==
    {CoachingStyleResult_model_validate(
         With(With(CoachingInputOk, "coaching_score", score),
              "improvement_feedback", feedback)).value :
        score \in {JInt(0), JInt(60), JFloat(Rat(171, 2)), JInt(100)},
        feedback \in {JStr(""), JStr("Ask more open questions")}}

ProbeSafetyResults ==
    {SafetyScoreResult_model_validate(
         With(SafetyInputOk, "safety_score", JInt(score))).value :
        score \in {0, 85, 100}}

Aggregate(speech, style, safety, goal) ==
    [speech |-> speech, style |-> style, safety |-> safety, goal |-> goal]

\* the goal results with three or four conversation keywords, one or two
\* of them matched, and no or five missing topics
FewGoalResults ==
    {g \in ProbeGoalResults :
        Len(g.conversation_keywords) \in {3, 4}
        /\ Len(g.missing_topics) \in {0, 5}
        /\ g.matched_topic_count \in {1, 2}}

TestSpeechResult == SpeechAnalyzer_calculate(TestTranscription).value

SafetyResultOk == SafetyScoreResult_model_validate(SafetyInputOk).value

StyleResultsSixty == {s \in ProbeStyleResults : s.coaching_score = RatInt(60)}

\* every speech, style and safety result with a few goal results, and every
\* goal result with each style result of one score
ProbeAggregates ==
    {Aggregate(speech, style, safety, goal) :
        speech \in ProbeSpeechResults, style \in ProbeStyleResults,
        safety \in ProbeSafetyResults, goal \in FewGoalResults}
    \cup {Aggregate(TestSpeechResult, style, SafetyResultOk, goal) :
            style \in StyleResultsSixty, goal \in ProbeGoalResults}

InitFormat ==
    /\ api_key = ApiKeys[3]
    /\ hash_seed = <<>>
    /\ sessions = [sid \in SessionIds |->
                      [user_id |-> sid, status |-> "scheduled",
                       report_data |-> None]]
    /\ runs = [r \in Requests |-> IdleRun]
    /\ temp_audio = {}
    /\ started = 0
    /\ committed = [sid \in SessionIds |-> <<>>]
    /\ probe \in {Some([calc |-> "format", given |-> aggregate,
                        aggregate |-> aggregate, calls |-> <<>>]) :
                     aggregate \in ProbeAggregates}

\* the four results after a call of format_member_report: goal_result is
\* the object the call was passed, as the statements up to the sort left it;
\* the statements after the sort read missing_topics, improvement_feedback
\* and scalar attributes, and append to the call's own action_items
ResultsAfterFormat(aggregate) ==
    [aggregate EXCEPT !.goal = WordCloudObjects(aggregate.goal).goal_result]

\* formatter.format_manager_report(speech, coaching, safety, goal): the call
\* reads scalar attributes of the four results and builds its own list of
\* points; no statement of it has an object of the results as its target
FormatManager ==
    LET call == probe[1]
        a == call.aggregate
    IN  /\ Len(call.calls) < MaxCalls
        /\ probe' = Some([call EXCEPT
                            !.calls =
                                Append(@, [report |-> "manager",
                                           outcome |-> format_manager_report(
                                               a.speech, a.style, a.safety, a.goal)])])
        /\ UNCHANGED <<api_key, hash_seed, sessions, runs, temp_audio,
                       started, committed>>

\* formatter.format_member_report(goal, speech, coaching): the view it
\* returns and the results as it leaves them
FormatMember ==
    LET call == probe[1]
        a == call.aggregate
    IN  /\ Len(call.calls) < MaxCalls
        /\ probe' = Some([call EXCEPT
                            !.calls =
                                Append(@, [report |-> "member",
                                           outcome |-> format_member_report(
                                               a.goal, a.speech, a.style)]),
                            !.aggregate = ResultsAfterFormat(a)])
        /\ UNCHANGED <<api_key, hash_seed, sessions, runs, temp_audio,
                       started, committed>>

NextFormat ==
    \/ FormatManager
    \/ FormatMember

SpecFormat == InitFormat /\ [][NextFormat]_vars

(***************************************************************************)
(* Properties of the orchestrator                                          *)
(***************************************************************************)
Last(s) == s[Len(s)]

\* a POST request that has been answered
AnalyzeResponded(run) == run.kind = "analyze" /\ run.pc = "responded"

\* a POST request that reached the gather call
Gathered(run) == run.kind = "analyze" /\ run.tasks["speech"] # "absent"

\* the calculators of a run that raised
FailedCalcs(run) ==
    {c \in Calcs : run.results[c] # None /\ ~run.results[c][1].ok}

\* the value a calculator of a run returned
ValueOf(run, c) == run.results[c][1].value

\* the merged report of a successful run
MergedReport(run) ==
    [manager |-> run.views[1].manager,
     member |-> run.views[1].member,
     performed_at |-> run.performed_at[1]]

\* C1: a run in which at least one calculator failed raises one of the
\* calculators' errors, produces no manager or member view, is answered with
\* an error status, and leaves the session's row (report_data and status) as
\* it was when the request arrived, whatever the other calculators returned.
C1_FailedRunLeavesNoTrace ==
    \A r \in Requests :
        LET run == runs[r]
        IN  (AnalyzeResponded(run) /\ FailedCalcs(run) # {}) =>
                /\ ~run.outcome[1].ok
                /\ run.outcome[1].error \in
                       {run.results[c][1].error : c \in FailedCalcs(run)}
                /\ run.http[1].status # 200
                /\ run.views = None
                /\ run.performed_at = None
                /\ (~run.interfered => run.after = run.before)

\* a run failed although some calculator returned, on a session that had a
\* stored report
C1_Witness ==
    \E r \in Requests :
        LET run == runs[r]
        IN  /\ AnalyzeResponded(run)
            /\ FailedCalcs(run) # {}
            /\ FailedCalcs(run) # Calcs
            /\ ~run.interfered
            /\ run.before # None
            /\ run.before[1].report_data # None
            /\ run.after = run.before

\* C2: the stored report of a session is exactly the merged report of the
\* run whose commit the database applied last (none before the first commit),
\* whichever run read the clock first: a later commit replaces the whole of
\* the earlier report, and every run that was answered with success has its
\* report among the commits of its session.
C2_LastWriteWins ==
    /\ \A sid \in SessionIds :
          IF committed[sid] = <<>>
          THEN /\ sessions[sid].report_data = None
               /\ sessions[sid].status = "scheduled"
          ELSE /\ sessions[sid].report_data = Some(json_dumps(Last(committed[sid])))
               /\ sessions[sid].status = "completed"
    /\ \A r \in Requests :
          LET run == runs[r]
              stored == json_loads(sessions[run.session_id].report_data[1])
          IN  (run.kind = "analyze" /\ run.pc \in {"committed", "responded"}
               /\ run.views # None) =>
                  /\ MergedReport(run) \in Range(committed[run.session_id])
                  /\ MergedReport(run) = Last(committed[run.session_id]) =>
                         stored = MergedReport(run)

\* two runs committed different reports of one session, the run that read the
\* clock second committing first: the report stored is the one committed
\* last, which holds the older timestamp
C2_Witness ==
    \E sid \in SessionIds :
        /\ Len(committed[sid]) = 2
        /\ committed[sid][1].performed_at > committed[sid][2].performed_at
        /\ json_loads(sessions[sid].report_data[1]) = committed[sid][2]
        /\ \E r \in Requests :
              /\ runs[r].pc = "committed"
              /\ runs[r].file_path \in temp_audio
              /\ MergedReport(runs[r]) = committed[sid][2]

\* C3: fetching the report of a session answers not-found in every state in
\* which no run of that session has committed a report, failed runs included,
\* and answers with the stored report of the latest commit in every other state.
C3_FetchAfterRuns ==
    /\ \A sid \in RequestedIds :
          get_session_report(sessions, sid) =
              IF sid \in SessionIds /\ committed[sid] # <<>>
              THEN HttpResponse(200, Some([session_id |-> sid,
                                           report |-> Last(committed[sid])]))
              ELSE HttpResponse(404, None)
    /\ \A r \in Requests :
          LET run == runs[r]
          IN  (run.kind = "report" /\ run.pc = "responded") =>
                  IF run.commits = 0
                  THEN run.http[1] = HttpResponse(404, None)
                  ELSE run.http[1] =
                          HttpResponse(200,
                              Some([session_id |-> run.session_id,
                                    report |-> committed[run.session_id][run.commits]]))

\* a GET request was answered not-found after a run of the session had failed
C3_Witness ==
    \E r, q \in Requests :
        /\ runs[r].kind = "report"
        /\ runs[r].pc = "responded"
        /\ runs[r].http[1].status = 404
        /\ runs[r].session_id \in SessionIds
        /\ AnalyzeResponded(runs[q])
        /\ runs[q].session_id = runs[r].session_id
        /\ Gathered(runs[q])
        /\ ~runs[q].outcome[1].ok

\* C4: a run that reached the gather call is answered only after each of the
\* four calculators has finished, and a calculator that raised has stopped
\* none of the others: each has its own result, and each LLM-backed calculator
\* has sent its request when a key is configured.
C4_DecisionAfterAllFinished ==
    \A r \in Requests :
        LET run == runs[r]
        IN  (AnalyzeResponded(run) /\ Gathered(run)) =>
                /\ \A c \in Calcs : run.tasks[c] = "done" /\ run.results[c] # None
                /\ Len(run.completed) = Cardinality(Calcs)
                /\ Range(run.completed) = Calcs
                /\ ~KeyMissing(api_key) =>
                       \A c \in LLMCalcs : run.llm_requests[c] = 1 /\ run.responses[c] # 0

\* a run was answered with the error of the calculator that finished first,
\* and a calculator that finished later had returned a result
C4_Witness ==
    \E r \in Requests :
        LET run == runs[r]
        IN  /\ AnalyzeResponded(run)
            /\ Gathered(run)
            /\ run.completed[1] \in FailedCalcs(run)
            /\ run.completed[Len(run.completed)] \notin FailedCalcs(run)
            /\ ~run.outcome[1].ok

\* C5: a run whose four calculators returned succeeds, and its views are the
\* formatter's output for the result of each calculator in its own argument,
\* in whatever order the calculators finished; two runs with equal results
\* have equal views.
C5_BoundByIdentity ==
    /\ \A r \in Requests :
          LET run == runs[r]
          IN  (AnalyzeResponded(run) /\ Gathered(run) /\ FailedCalcs(run) = {}) =>
                  /\ run.outcome[1].ok
                  /\ ValueOf(run, "speech").kind = "SpeechAnalysisResult"
                  /\ ValueOf(run, "goal").kind = "GoalAlignmentResult"
                  /\ ValueOf(run, "coaching").kind = "CoachingStyleResult"
                  /\ ValueOf(run, "safety").kind = "SafetyScoreResult"
                  /\ LET reports == FormattedReports(ValueOf(run, "speech"),
                                                     ValueOf(run, "goal"),
                                                     ValueOf(run, "coaching"),
                                                     ValueOf(run, "safety"))
                     IN  run.views = Some([manager |-> reports.manager.value,
                                           member |-> reports.member.value])
    /\ \A r, q \in Requests :
          (/\ AnalyzeResponded(runs[r]) /\ AnalyzeResponded(runs[q])
           /\ runs[r].views # None /\ runs[q].views # None
           /\ runs[r].results = runs[q].results) =>
              runs[r].views = runs[q].views

\* two runs succeeded with equal views, the safety calculator finishing before
\* the coaching calculator in one and after it in the other
C5_Witness ==
    \E r, q \in Requests :
        /\ AnalyzeResponded(runs[r]) /\ AnalyzeResponded(runs[q])
        /\ runs[r].views # None
        /\ runs[r].views = runs[q].views
        /\ runs[r].completed = <<"speech", "goal", "coaching", "safety">>
        /\ runs[q].completed = <<"speech", "goal", "safety", "coaching">>

\* the calculators without an external call whose input validation failed
ValidationFailed(run) ==
    {c \in {"speech", "goal"} :
        /\ run.results[c] # None
        /\ ~run.results[c][1].ok
        /\ run.results[c][1].error.type = "ValueError"}

\* C6 as stated: in a run in which a calculator's input validation fails, no
\* LLM request is issued.
C6_NoRequestAfterValidationFailure ==
    \A r \in Requests :
        LET run == runs[r]
        IN  (Gathered(run) /\ ValidationFailed(run) # {}) =>
                \A c \in LLMCalcs : run.llm_requests[c] = 0

\* C6: the two calculators with input validation have finished, a validation
\* error raised included, before any LLM request of the run is sent; the
\* LLM-backed calculators of that run still start, and with a key configured
\* each sends its one request before the run raises the validation error.
C6_ValidationPrecedesRequests ==
    \A r \in Requests :
        LET run == runs[r]
        IN  /\ (\E c \in LLMCalcs : run.llm_requests[c] > 0) =>
                   /\ run.results["speech"] # None
                   /\ run.results["goal"] # None
            /\ (AnalyzeResponded(run) /\ ValidationFailed(run) # {}) =>
                   /\ \A c \in LLMCalcs :
                         run.llm_requests[c] = IF KeyMissing(api_key) THEN 0 ELSE 1
                   /\ ~run.outcome[1].ok
                   /\ run.outcome[1].error \in
                          {run.results[c][1].error : c \in ValidationFailed(run)}

\* a run whose timing calculator rejected its input was answered with that
\* error after both LLM-backed calculators had sent a request
C6_Witness ==
    \E r \in Requests :
        LET run == runs[r]
        IN  /\ AnalyzeResponded(run)
            /\ "speech" \in ValidationFailed(run)
            /\ \A c \in LLMCalcs : run.llm_requests[c] = 1
            /\ run.outcome[1].error = run.results["speech"][1].error

\* C7: with no key configured (None or the empty string) a call of an
\* LLM-backed calculator sends no request, never waits for a response and
\* ends with the ValueError that names the missing key.
C7_NoKeyNoRequest ==
    KeyMissing(api_key) =>
        /\ probe[1].requests = 0
        /\ probe[1].pc # "waiting"
        /\ probe[1].response = None
        /\ probe[1].pc = "done" =>
               probe[1].outcome =
                   Some(Raised(ValueError("Anthropic API Key is missing")))

\* a call ended with the error with the key set to the empty string
C7_Witness ==
    /\ api_key = Some("")
    /\ probe[1].pc = "done"
    /\ ~probe[1].outcome[1].ok
    /\ probe[1].requests = 0

\* the blocks of a content that call the tool of the request
MatchingBlocks(content) ==
    {i \in 1..Len(content) :
        content[i].type = "tool_use" /\ content[i].name = "record_analysis_result"}

\* the number a JSON value stands for, as a rational: an int, a float, or a
\* string that spells a number
IsNumber(input, name) ==
    /\ name \in DOMAIN input
    /\ \/ input[name].t \in {"int", "float"}
       \/ input[name].t = "str" /\ input[name].str \in DOMAIN NumericStrings

NumberOf(j) ==
    IF j.t = "int" THEN <<j.int, 1>>
    ELSE IF j.t = "float" THEN j.float
    ELSE <<NumericStrings[j.str], 1>>

InScoreRange(input, name) ==
    /\ IsNumber(input, name)
    /\ 0 <= NumberOf(input[name])[1]
    /\ NumberOf(input[name])[1] <= 100 * NumberOf(input[name])[2]

IsText(input, name) == name \in DOMAIN input /\ input[name].t = "str"

ItemsOk(input, name, required) ==
    name \in DOMAIN input =>
        /\ input[name].t = "list"
        /\ \A i \in 1..Len(input[name].list) :
              \A f \in required : IsText(input[name].list[i], f)

\* the output schema of a calculator, stated on the tool input
SatisfiesSchema(calc, input) ==
    IF calc = "safety"
    THEN /\ InScoreRange(input, "safety_score")
         /\ NumberOf(input["safety_score"])[2] = 1
         /\ IsText(input, "score_rationale")
         /\ IsText(input, "manager_behavior_analysis")
         /\ ItemsOk(input, "positive_factors", {"category", "description", "impact"})
         /\ ItemsOk(input, "risk_factors", {"category", "description", "impact"})
    ELSE /\ InScoreRange(input, "directive_score")
         /\ InScoreRange(input, "coaching_score")
         /\ IsText(input, "balance_assessment")
         /\ IsText(input, "improvement_feedback")
         /\ ItemsOk(input, "key_examples", {"text", "style", "reason"})

\* every item of a list of the result has the fields of its model and no other
ItemsComplete(items, fields) == \A i \in 1..Len(items) : DOMAIN items[i] = fields

\* a result that is complete and in range
ResultInRange(calc, value) ==
    IF calc = "safety"
    THEN /\ DOMAIN value = {"kind", "safety_score", "score_rationale",
                            "positive_factors", "risk_factors",
                            "manager_behavior_analysis"}
         /\ value.safety_score \in 0..100
         /\ ItemsComplete(value.positive_factors,
                          {"category", "description", "quote", "impact"})
         /\ ItemsComplete(value.risk_factors,
                          {"category", "description", "quote", "impact"})
    ELSE /\ DOMAIN value = {"kind", "directive_score", "coaching_score",
                            "balance_assessment", "key_examples",
                            "improvement_feedback"}
         /\ ItemsComplete(value.key_examples, {"text", "style", "reason"})
         /\ \A f \in {"directive_score", "coaching_score"} :
               0 <= value[f][1] /\ value[f][1] <= 100 * value[f][2]

\* C8: a call returns a result only for a response whose first block calling
\* the tool has an input that satisfies the output schema, and the result is
\* then complete and in range; for a failed request, a response without such a
\* block or a response none of whose tool inputs satisfies the schema, the
\* call fails.
C8_OnlySchemaValidResults ==
    LET call == probe[1]
    IN  (call.pc = "done" /\ call.response # None) =>
            LET response == call.response[1]
                matching == MatchingBlocks(response.content)
                first == CHOOSE i \in matching : \A j \in matching : i <= j
            IN  /\ call.outcome[1].ok =>
                       /\ ~response.raises
                       /\ matching # {}
                       /\ SatisfiesSchema(call.calc, response.content[first].input)
                       /\ ResultInRange(call.calc, call.outcome[1].value)
                /\ (\/ response.raises
                    \/ \A i \in matching :
                          ~SatisfiesSchema(call.calc, response.content[i].input))
                       => ~call.outcome[1].ok

\* a call of the safety calculator failed with a ValidationError on a response
\* whose tool input has a safety_score of 101
C8_Witness ==
    LET call == probe[1]
    IN  /\ call.pc = "done"
        /\ call.calc = "safety"
        /\ call.response # None
        /\ ~call.response[1].raises
        /\ MatchingBlocks(call.response[1].content) # {}
        /\ \E i \in MatchingBlocks(call.response[1].content) :
              LET input == call.response[1].content[i].input
              IN  /\ "safety_score" \in DOMAIN input
                  /\ input["safety_score"] = JInt(101)
        /\ ~call.outcome[1].ok
        /\ call.outcome[1].error.type = "ValidationError"

\* C9: an LLM-backed calculator of a run sends at most one request (one call
\* of client.messages.create), so a run sends at most two; a request the
\* service failed is not sent again: the calculator ends with the APIError
\* and the run raises.
C9_AtMostOneRequest ==
    \A r \in Requests :
        LET run == runs[r]
        IN  /\ \A c \in LLMCalcs :
                  /\ run.llm_requests[c] <= 1
                  /\ (run.responses[c] # 0
                      /\ LLMResponses(c)[run.responses[c]].raises) =>
                         /\ run.tasks[c] = "done"
                         /\ run.results[c] =
                                Some(Raised(APIError("Anthropic API Error")))
                         /\ AnalyzeResponded(run) => ~run.outcome[1].ok
            /\ run.llm_requests["coaching"] + run.llm_requests["safety"] <= 2

\* a run sent its two requests, the service failed one of them, and the run
\* raised the APIError
C9_Witness ==
    \E r \in Requests :
        LET run == runs[r]
        IN  /\ AnalyzeResponded(run)
            /\ run.llm_requests["coaching"] + run.llm_requests["safety"] = 2
            /\ LLMResponses("safety")[run.responses["safety"]].raises
            /\ ~LLMResponses("coaching")[run.responses["coaching"]].raises
            /\ run.outcome[1] = Raised(APIError("Anthropic API Error"))


\* what a run yields on its own from the outcomes of its four calculators:
\* the first error in the order of the gather call or the two views
SoloOutcomeOf(alone, coaching, safety) ==
    LET outcomes == <<alone.speech, alone.goal, coaching, safety>>
        failed == {i \in 1..4 : ~outcomes[i].ok}
    IN  IF failed # {}
        THEN Raised(outcomes[CHOOSE i \in failed : \A j \in failed : i <= j].error)
        ELSE Returned(
                 [manager |->
                      format_manager_report(outcomes[1].value, outcomes[3].value,
                                            outcomes[4].value, outcomes[2].value).value,
                  member |->
                      format_member_report(outcomes[2].value, outcomes[1].value,
                                           outcomes[3].value).value])

\* what a run with a configured key yields on its own, for each user,
\* transcription, hash seed and pair of responses of the LLM service
SoloResponded ==
    [user_id \in SessionIds, w \in 2..Len(WhisperResponses), seed \in {<<>>},
     i \in DOMAIN LLMResponses("coaching"), j \in DOMAIN LLMResponses("safety") |->
        SoloOutcomeOf(LocalCalculators[user_id, w, seed],
                      LLM_after_request(LLMResponses("coaching")[i],
                                        OutputModelOf("coaching")),
                      LLM_after_request(LLMResponses("safety")[j],
                                        OutputModelOf("safety")))]

\* what a run that reached the gather call yields on its own, computed step
\* after step from its session, its transcription and the responses of the
\* LLM service: the error it raises or the two views it returns
SoloOutcome(run) ==
    IF KeyMissing(api_key)
    THEN LET missing == Raised(ValueError("Anthropic API Key is missing"))
         IN  SoloOutcomeOf(LocalCalculators[run.before[1].user_id, run.whisper,
                                            hash_seed],
                           missing, missing)
    ELSE SoloResponded[run.before[1].user_id, run.whisper, hash_seed,
                       run.responses["coaching"], run.responses["safety"]]

\* the session's row after a run on its own
SoloRow(run, solo) ==
    IF solo.ok
    THEN Some([run.before[1] EXCEPT
                 !.report_data =
                     Some(json_dumps([manager |-> solo.value.manager,
                                      member |-> solo.value.member,
                                      performed_at |-> run.performed_at[1]])),
                 !.status = "completed"])
    ELSE run.before

\* C10: a run during which no other run committed a report of its session (as
\* is every run concurrent with a run on another session) ends as it would on
\* its own: the same error or the same views, and the session's row left as it
\* was or holding exactly its report; when the only two runs are on different
\* sessions each session's stored row is the one its own run left, and
\* neither run lost its upload to the other (the path of the file holds the
\* id of the session).
C10_IndependentSessions ==
    /\ \A r \in Requests :
          LET run == runs[r]
          IN  (AnalyzeResponded(run) /\ Gathered(run) /\ ~run.interfered) =>
                  LET solo == SoloOutcome(run)
                  IN  /\ run.outcome[1].ok = solo.ok
                      /\ ~solo.ok => run.outcome[1].error = solo.error
                      /\ solo.ok => run.views = Some(solo.value)
                      /\ run.after = SoloRow(run, solo)
    /\ \A r, q \in Requests :
          (/\ r # q
           /\ started = 2
           /\ AnalyzeResponded(runs[r]) /\ AnalyzeResponded(runs[q])
           /\ runs[r].session_id \in SessionIds
           /\ runs[q].session_id \in SessionIds
           /\ runs[r].session_id # runs[q].session_id) =>
              /\ ~runs[r].interfered
              /\ Some(sessions[runs[r].session_id]) = runs[r].after
              /\ runs[r].outcome[1].ok
                     \/ runs[r].outcome[1].error.type # "FileNotFoundError"

\* two concurrent runs on different sessions, whose uploads had the same
\* name and arrived at the same reading of the clock, were answered: one
\* failed and left its session without a report, the other stored its report
C10_Witness ==
    \E r, q \in Requests :
        /\ r # q
        /\ started = 2
        /\ AnalyzeResponded(runs[r]) /\ AnalyzeResponded(runs[q])
        /\ Gathered(runs[r]) /\ Gathered(runs[q])
        /\ runs[r].session_id # runs[q].session_id
        /\ \E t \in Timestamps, filename \in Filenames :
              /\ runs[r].file_path = file_path(runs[r].session_id, t, filename)
              /\ runs[q].file_path = file_path(runs[q].session_id, t, filename)
        /\ ~runs[r].outcome[1].ok
        /\ sessions[runs[r].session_id].report_data = None
        /\ runs[q].outcome[1].ok
        /\ sessions[runs[q].session_id].report_data # None

(***************************************************************************)
(* Properties of SpeechAnalyzer                                            *)
(***************************************************************************)
\* the call of SpeechAnalyzer.calculate has finished
SpeechDone ==
    probe # None /\ probe[1].calc = "speech" /\ probe[1].pc = "done"

\* one of the four defects validation names
InvalidTranscript(data) ==
    \/ data.segments = <<>>
    \/ \E i \in 1..Len(data.segments) :
          \/ data.segments[i].start_time < 0
          \/ data.segments[i].end_time < data.segments[i].start_time
          \/ data.segments[i].speaker
                \notin {data.manager_identifier, data.member_identifier}

\* C11: SpeechAnalyzer.calculate raises a validation error (a ValueError) and
\* produces no result exactly when the segment list is empty, or a segment
\* starts before 0, or ends before it starts, or is spoken by neither
\* identifier; for every other transcription it returns a SpeechAnalysisResult.
C11_FailsExactlyOnInvalidTranscript ==
    SpeechDone =>
        LET outcome == probe[1].outcome[1]
        IN  IF InvalidTranscript(probe[1].data)
            THEN ~outcome.ok /\ outcome.error.type = "ValueError"
            ELSE outcome.ok /\ outcome.value.kind = "SpeechAnalysisResult"

\* a transcription whose only defect is a segment that ends before it starts
\* has been refused
C11_Witness ==
    /\ SpeechDone
    /\ ~probe[1].outcome[1].ok
    /\ probe[1].data.segments # <<>>
    /\ \A i \in 1..Len(probe[1].data.segments) :
          /\ probe[1].data.segments[i].start_time >= 0
          /\ probe[1].data.segments[i].speaker \in {"manager", "member"}

\* the segments of a list in start_time order; segments that start together
\* keep the order in which they were given
PlaceOf(segments, i) ==
    1 + Cardinality({j \in 1..Len(segments) :
                        \/ segments[j].start_time < segments[i].start_time
                        \/ /\ segments[j].start_time = segments[i].start_time
                           /\ j < i})

InStartOrder(segments) ==
    [k \in 1..Len(segments) |->
        segments[CHOOSE i \in 1..Len(segments) : PlaceOf(segments, i) = k]]

\* the sum of the durations end_time - start_time of the segments spoken by
\* id, added in start_time order
TimeSpokenBy(data, id) ==
    LET ordered == InStartOrder(data.segments)
        spoken == SelectSeq(ordered, LAMBDA segment : segment.speaker = id)
    IN  FloatSum([i \in 1..Len(spoken) |->
                     FloatSub(Seconds(spoken[i].end_time),
                              Seconds(spoken[i].start_time))])

TurnsOf(data, id) ==
    Cardinality({i \in 1..Len(data.segments) : data.segments[i].speaker = id})

\* the sum of the positive gaps between neighbours, added in order
PositiveGaps(ordered) ==
    FloatSum([k \in 1..(Len(ordered) - 1) |->
                 FloatMax(Float_0_0,
                          FloatSub(Seconds(ordered[k + 1].start_time),
                                   Seconds(ordered[k].end_time)))])

\* C13: for every valid transcription the result's speaking time of a speaker
\* is the sum of the durations of that speaker's segments, its turn count is
\* the number of those segments, total_silence_time is the sum of the positive
\* gaps between segments adjacent in start_time order, and silence_percentage
\* is total_silence_time / meeting_duration * 100 (0 when the meeting duration
\* is 0, where no silence exists either); the transcription of
\* test_speech_analyzer gives 9.0 s and 11.2 s of speech, 3.3 s of silence,
\* 11.0 percent, three turns each and averages 3.0 s and 11.2/3 s.
C13_TimesTurnsAndSilence ==
    (SpeechDone /\ probe[1].outcome[1].ok) =>
        LET data == probe[1].data
            result == probe[1].outcome[1].value
        IN  /\ result.manager_speaking_time
                  = TimeSpokenBy(data, data.manager_identifier)
            /\ result.member_speaking_time
                  = TimeSpokenBy(data, data.member_identifier)
            /\ result.manager_turn_count = TurnsOf(data, data.manager_identifier)
            /\ result.member_turn_count = TurnsOf(data, data.member_identifier)
            /\ result.total_silence_time
                  = PositiveGaps(InStartOrder(data.segments))
            /\ IF result.meeting_duration # Float_0_0
               THEN result.silence_percentage
                        = FloatMul(FloatDiv(result.total_silence_time,
                                            result.meeting_duration),
                                   Float_100)
               ELSE /\ result.silence_percentage = Float_0_0
                    /\ result.total_silence_time = Float_0_0
            /\ data = TestTranscription =>
                  /\ result.manager_speaking_time = Seconds(90)
                  /\ result.member_speaking_time = Seconds(112)
                  /\ result.total_silence_time = Seconds(33)
                  /\ result.silence_percentage = FloatOfInt(11)
                  /\ result.manager_turn_count = 3
                  /\ result.member_turn_count = 3
                  /\ result.manager_avg_segment_duration = FloatOfInt(3)
                  /\ result.member_avg_segment_duration
                        = FloatDiv(Seconds(112), FloatOfInt(3))

\* the transcription of test_speech_analyzer has been analysed
C13_Witness ==
    /\ SpeechDone
    /\ probe[1].data = TestTranscription
    /\ probe[1].outcome[1].ok
    /\ FloatGt(probe[1].outcome[1].value.total_silence_time, Float_0_0)

\* C14: for every valid transcription the result's meeting_duration is the
\* total_duration override whenever one is supplied (is not None), whatever
\* its value, and the end_time of the last segment in start_time order only
\* when none is supplied; silence_percentage is computed against it.
C14_OverrideAlwaysUsed ==
    (SpeechDone /\ probe[1].outcome[1].ok) =>
        LET data == probe[1].data
            result == probe[1].outcome[1].value
            ordered == InStartOrder(data.segments)
            expected == IF data.total_duration # None
                        THEN Seconds(data.total_duration[1])
                        ELSE Seconds(ordered[Len(ordered)].end_time)
        IN  /\ result.meeting_duration = expected
            /\ FloatGt(expected, Float_0_0) =>
                  result.silence_percentage
                      = FloatMul(FloatDiv(result.total_silence_time, expected),
                                 Float_100)

\* an override of 0.0 was supplied and the result reports the end of the
\* last segment instead
C14_Witness ==
    /\ SpeechDone
    /\ probe[1].outcome[1].ok
    /\ probe[1].data.total_duration = Some(0)
    /\ probe[1].outcome[1].value.meeting_duration = Seconds(10)
    /\ Len(probe[1].data.segments) = 1

\* C15: for every transcription accepted by validation the speaking times,
\* speaking ratios, turn counts and average segment durations are not
\* negative, the two ratios sum to at most 1 and to 0 when nobody spoke, and
\* a ratio or an average whose denominator is 0 is 0 (no division by zero:
\* the call returns).
C15_NonNegativeAndSafeDivision ==
    (SpeechDone /\ ~InvalidTranscript(probe[1].data)) =>
        /\ probe[1].outcome[1].ok
        /\ LET result == probe[1].outcome[1].value
               ratio_sum == FloatAdd(result.manager_speaking_ratio,
                                     result.member_speaking_ratio)
           IN  /\ FloatGe(result.manager_speaking_time, Float_0_0)
               /\ FloatGe(result.member_speaking_time, Float_0_0)
               /\ FloatGe(result.total_speaking_time, Float_0_0)
               /\ FloatGe(result.manager_speaking_ratio, Float_0_0)
               /\ FloatGe(result.member_speaking_ratio, Float_0_0)
               /\ result.manager_turn_count >= 0
               /\ result.member_turn_count >= 0
               /\ result.total_turns >= 0
               /\ FloatGe(result.manager_avg_segment_duration, Float_0_0)
               /\ FloatGe(result.member_avg_segment_duration, Float_0_0)
               /\ FloatLe(ratio_sum, Float_1_0)
               /\ result.total_speaking_time = Float_0_0 =>
                     /\ ratio_sum = Float_0_0
                     /\ result.manager_speaking_ratio = Float_0_0
                     /\ result.member_speaking_ratio = Float_0_0
               /\ result.manager_turn_count = 0 =>
                     result.manager_avg_segment_duration = Float_0_0
               /\ result.member_turn_count = 0 =>
                     result.member_avg_segment_duration = Float_0_0

\* the manager spoke from 0.0 to 1.0 s and the member from 0.0 to 3.1 s: the
\* sum of the two ratios of the result is above 1
C15_Witness ==
    /\ SpeechDone
    /\ probe[1].outcome[1].ok
    /\ probe[1].data.segments
          = << SpeechSegment("manager", TextOk, 0, 10),
               SpeechSegment("member", TextOk, 0, 31) >>
    /\ FloatGt(FloatAdd(probe[1].outcome[1].value.manager_speaking_ratio,
                        probe[1].outcome[1].value.member_speaking_ratio),
               Float_1_0)

\* C16: on every sequence of segments sorted by start_time, overlapping and
\* nested segments included, _calculate_silence_time is not negative and
\* each adjacent pair adds max(0, next.start_time - current.end_time) to it:
\* an overlap adds 0 and never takes silence away; the result of calculate
\* carries that total.
C16_SilenceNeverNegative ==
    (probe # None /\ probe[1].calc = "speech") =>
        LET ordered == InStartOrder(probe[1].data.segments)
            SilenceOf(k) == _calculate_silence_time(Take(ordered, k))
        IN  /\ FloatGe(_calculate_silence_time(ordered), Float_0_0)
            /\ SilenceOf(0) = Float_0_0
            /\ \A k \in 1..Len(ordered) :
                  SilenceOf(k)
                      = IF k = 1 THEN Float_0_0
                        ELSE FloatAdd(
                                 SilenceOf(k - 1),
                                 FloatMax(Float_0_0,
                                          FloatSub(Seconds(ordered[k].start_time),
                                                   Seconds(ordered[k - 1].end_time))))
            /\ (probe[1].pc = "done" /\ probe[1].outcome[1].ok) =>
                  /\ probe[1].outcome[1].value.total_silence_time
                        = _calculate_silence_time(ordered)
                  /\ FloatGe(probe[1].outcome[1].value.total_silence_time,
                             Float_0_0)

\* a transcription with a pause followed by a nested and an overlapping
\* segment has been analysed: the pause is all of its silence
C16_Witness ==
    /\ SpeechDone
    /\ probe[1].outcome[1].ok
    /\ LET ordered == InStartOrder(probe[1].data.segments)
       IN  /\ \E k \in 2..Len(ordered) :
                 ordered[k].start_time > ordered[k - 1].end_time
           /\ \E k \in 2..Len(ordered) :
                 /\ ordered[k].start_time < ordered[k - 1].end_time
                 /\ ordered[k].end_time <= ordered[k - 1].end_time
           /\ \E k \in 2..Len(ordered) :
                 /\ ordered[k].start_time < ordered[k - 1].end_time
                 /\ ordered[k].end_time > ordered[k - 1].end_time
    /\ probe[1].outcome[1].value.total_silence_time = Seconds(10)

(***************************************************************************)
(* Properties of GoalAlignmentCalculator                                   *)
(***************************************************************************)
\* the call of GoalAlignmentCalculator.calculate has finished
GoalDone ==
    probe # None /\ probe[1].calc = "goal" /\ probe[1].pc = "done"

\* ... and returned a result
GoalReturned == GoalDone /\ probe[1].outcome[1].ok

\* text.strip() is empty
BlankText(text) == \A i \in 1..Len(text) : text[i] \in Whitespace

\* one of the defects validation names
InvalidGoalInput(data) ==
    \/ BlankText(data.goal_text)
    \/ BlankText(data.conversation_transcript)
    \/ Len(data.goal_text) < 10
    \/ Len(data.conversation_transcript) < 20

\* C12: GoalAlignmentCalculator.calculate raises a validation error (a
\* ValueError) and produces no result exactly when the goal text or the
\* conversation text is empty after trimming, or the goal text has fewer
\* than 10 characters, or the conversation text fewer than 20; for every
\* other input it returns a GoalAlignmentResult, also when the goal text has
\* no keyword.
C12_FailsExactlyOnInvalidGoalInput ==
    GoalDone =>
        LET outcome == probe[1].outcome[1]
        IN  IF InvalidGoalInput(probe[1].data)
            THEN ~outcome.ok /\ outcome.error.type = "ValueError"
            ELSE outcome.ok /\ outcome.value.kind = "GoalAlignmentResult"

\* a goal text of ten characters without any keyword has been analysed
\* against a conversation that has keywords
C12_Witness ==
    /\ GoalReturned
    /\ probe[1].outcome[1].value.goal_keywords = <<>>
    /\ probe[1].outcome[1].value.conversation_keywords # <<>>
    /\ Len(probe[1].data.goal_text) = 10

\* C17: for every valid input the result has 0 <= alignment_score <= 1 and
\* 0 <= goal_coverage <= 1, the relevance_score of every matched topic is in
\* [0, 1], and matched_topic_count is the number of matched topics and at
\* most min(|goal_keywords|, |conversation_keywords|).
C17_ScoresInRange ==
    (GoalDone /\ ~InvalidGoalInput(probe[1].data)) =>
        /\ probe[1].outcome[1].ok
        /\ LET result == probe[1].outcome[1].value
           IN  /\ FloatGe(result.alignment_score, Float_0_0)
               /\ FloatLe(result.alignment_score, Float_1_0)
               /\ FloatGe(result.goal_coverage, Float_0_0)
               /\ FloatLe(result.goal_coverage, Float_1_0)
               /\ \A i \in 1..Len(result.matched_topics) :
                     /\ FloatGe(result.matched_topics[i].relevance_score, Float_0_0)
                     /\ FloatLe(result.matched_topics[i].relevance_score, Float_1_0)
               /\ result.matched_topic_count = Len(result.matched_topics)
               /\ result.matched_topic_count
                     <= Min2(Len(result.goal_keywords),
                             Len(result.conversation_keywords))

\* every keyword of a goal with two keywords was matched in a conversation
\* with more keywords, and the score is positive
C17_Witness ==
    /\ GoalReturned
    /\ probe[1].outcome[1].value.matched_topic_count = 2
    /\ Len(probe[1].outcome[1].value.goal_keywords) = 2
    /\ Len(probe[1].outcome[1].value.conversation_keywords) > 2
    /\ FloatGt(probe[1].outcome[1].value.alignment_score, Float_0_0)
    /\ probe[1].outcome[1].value.goal_coverage = Float_1_0

\* C18: for every valid input whose goal text and conversation text share no
\* extracted keyword, alignment_score is 0, matched_topics is empty with
\* matched_topic_count 0, and missing_topics is the first five goal keywords
\* in extraction order (all of them when there are fewer).
C18_NothingSharedScoresZero ==
    (GoalReturned
     /\ Range(probe[1].outcome[1].value.goal_keywords)
            \cap Range(probe[1].outcome[1].value.conversation_keywords) = {}) =>
        LET result == probe[1].outcome[1].value
        IN  /\ result.goal_keywords = _extract_keywords(probe[1].data.goal_text)
            /\ result.alignment_score = Float_0_0
            /\ result.matched_topics = <<>>
            /\ result.matched_topic_count = 0
            /\ result.missing_topics
                  = SubSeq(result.goal_keywords, 1,
                           Min2(5, Len(result.goal_keywords)))

\* a goal with seven keywords has been analysed against a conversation that
\* has keywords but none of those: five keywords are reported missing
C18_Witness ==
    /\ GoalReturned
    /\ Len(probe[1].outcome[1].value.goal_keywords) = 7
    /\ probe[1].outcome[1].value.conversation_keywords # <<>>
    /\ probe[1].outcome[1].value.matched_topic_count = 0
    /\ Len(probe[1].outcome[1].value.missing_topics) = 5

\* score >= the double that the literal num/den of the code denotes
ScoreAtLeast(score, num, den) == FloatCmp(score, FloatOfRatio(num, den)) >= 0

\* the category the thresholds give to a score
CategoryByThresholds(score) ==
    CASE ScoreAtLeast(score, 7, 10) -> "high"
      [] ScoreAtLeast(score, 4, 10) /\ ~ScoreAtLeast(score, 7, 10) -> "medium"
      [] ScoreAtLeast(score, 15, 100) /\ ~ScoreAtLeast(score, 4, 10) -> "low"
      [] ~ScoreAtLeast(score, 15, 100) -> "none"

\* none < low < medium < high
CategoryRank(category) ==
    CASE category = "none" -> 0
      [] category = "low" -> 1
      [] category = "medium" -> 2
      [] category = "high" -> 3

\* the categorisation of a score has finished
CategorizeDone ==
    probe # None /\ probe[1].calc = "categorize" /\ probe[1].pc = "done"

\* C19: for every alignment_score in [0, 1] the category is "high" iff the
\* score is at least 0.7, "medium" iff it is in [0.4, 0.7), "low" iff it is
\* in [0.15, 0.4) and "none" iff it is below 0.15, so a lower score never has
\* a higher category; is_aligned is true iff the score is at least 0.3; and
\* in a result of calculate both are those of the result's alignment_score.
C19_CategoryAndFlagFollowScore ==
    /\ CategorizeDone =>
          LET score == probe[1].alignment_score
              answer == probe[1].outcome[1]
          IN  /\ answer.alignment_category = CategoryByThresholds(score)
              /\ answer.is_aligned = ScoreAtLeast(score, 3, 10)
              /\ \A lower \in ProbeScores :
                    FloatLe(lower, score) =>
                        CategoryRank(_categorize_alignment(lower))
                            <= CategoryRank(answer.alignment_category)
    /\ GoalReturned =>
          LET result == probe[1].outcome[1].value
          IN  /\ result.alignment_category
                    = CategoryByThresholds(result.alignment_score)
              /\ result.is_aligned = ScoreAtLeast(result.alignment_score, 3, 10)

\* the score 0.3 has been categorised: it is "low" and aligned
C19_Witness ==
    /\ CategorizeDone
    /\ probe[1].alignment_score = Float_0_3
    /\ probe[1].outcome[1].alignment_category = "low"
    /\ probe[1].outcome[1].is_aligned

\* the places of the goal keywords that the conversation keywords lack
AbsentPlaces(result) ==
    {i \in 1..Len(result.goal_keywords) :
        \A j \in 1..Len(result.conversation_keywords) :
            result.conversation_keywords[j] # result.goal_keywords[i]}

\* the n-th smallest of a set of places
NthPlace(places, n) ==
    CHOOSE i \in places : Cardinality({k \in places : k < i}) = n - 1

\* C20: for every valid input missing_topics is the first (at most five)
\* goal keywords, in goal-keyword order, that are absent from the
\* conversation keywords: at most five entries, none a matched topic, and no
\* earlier absent goal keyword left out in favour of a later one.
C20_MissingTopicsAreFirstAbsent ==
    GoalReturned =>
        LET result == probe[1].outcome[1].value
            missing == result.missing_topics
            absent == AbsentPlaces(result)
        IN  /\ Len(missing) <= 5
            /\ Len(missing) = Min2(5, Cardinality(absent))
            /\ \A n \in 1..Len(missing) :
                  missing[n] = result.goal_keywords[NthPlace(absent, n)]
            /\ \A n \in 1..Len(missing) :
                  \A t \in 1..Len(result.matched_topics) :
                      result.matched_topics[t].keyword # missing[n]
            /\ \A i \in absent :
                  (\A n \in 1..Len(missing) : missing[n] # result.goal_keywords[i])
                      => /\ Len(missing) = 5
                         /\ \A n \in 1..5 : NthPlace(absent, n) < i

\* a goal with seven keywords has been analysed against a conversation with
\* the second of them: the third keyword is the second missing topic, and
\* the seventh is absent but not among the five reported
C20_Witness ==
    /\ GoalReturned
    /\ Len(probe[1].outcome[1].value.goal_keywords) = 7
    /\ probe[1].outcome[1].value.matched_topic_count = 1
    /\ probe[1].outcome[1].value.matched_topics[1].keyword
          = probe[1].outcome[1].value.goal_keywords[2]
    /\ Len(probe[1].outcome[1].value.missing_topics) = 5
    /\ probe[1].outcome[1].value.missing_topics[2]
          = probe[1].outcome[1].value.goal_keywords[3]
    /\ 7 \in AbsentPlaces(probe[1].outcome[1].value)

\* C21: for every valid input the matched topics of the result are ordered
\* by non-increasing relevance_score, and there is exactly one of them for
\* each keyword that is both a goal keyword and a conversation keyword.
C21_MatchedTopicsSortedAndExact ==
    GoalReturned =>
        LET result == probe[1].outcome[1].value
            topics == result.matched_topics
            common == {k \in Range(result.goal_keywords) :
                          \E j \in 1..Len(result.conversation_keywords) :
                              result.conversation_keywords[j] = k}
        IN  /\ \A i \in 1..(Len(topics) - 1) :
                  FloatGe(topics[i].relevance_score, topics[i + 1].relevance_score)
            /\ {topics[i].keyword : i \in 1..Len(topics)} = common
            /\ \A i, j \in 1..Len(topics) :
                  topics[i].keyword = topics[j].keyword => i = j

\* two keywords were matched with different relevance while the set of
\* common keywords was iterated from the less relevant one
C21_Witness ==
    /\ GoalReturned
    /\ hash_seed = <<1>>
    /\ Len(probe[1].outcome[1].value.matched_topics) = 2
    /\ FloatGt(probe[1].outcome[1].value.matched_topics[1].relevance_score,
               probe[1].outcome[1].value.matched_topics[2].relevance_score)
    /\ probe[1].outcome[1].value.matched_topics[1].keyword
          = probe[1].outcome[1].value.goal_keywords[1]

(***************************************************************************)
(* Properties of ReportFormatter                                           *)
(***************************************************************************)
FormatCalls == probe # None /\ "calc" \in DOMAIN probe[1] /\ probe[1].calc = "format"

\* the views returned so far
ViewsOf(report) ==
    IF FormatCalls
    THEN {probe[1].calls[i].outcome :
             i \in {k \in DOMAIN probe[1].calls : probe[1].calls[k].report = report}}
    ELSE {}

ManagerViews == ViewsOf("manager")
MemberViews == ViewsOf("member")

RadarSubjects == <<"listening", "questioning", "safety", "alignment", "balance">>

\* the five radar values of the aggregate as the spec states them, each the
\* float of the stated expression
RadarValues(a) ==
    LET top == FloatMax(a.speech.manager_speaking_ratio,
                        a.speech.member_speaking_ratio)
        over == FloatMax(Float_0_0, FloatSub(top, Float_0_5))
        balance == FloatSub(Float_100, FloatMul(over, Float_200))
    IN  << FloatMin(Float_100,
                    FloatMul(FloatMul(a.speech.member_speaking_ratio, Float_100),
                             Float_1_5)),
           FloatOfRat(a.style.coaching_score),
           FloatOfInt(a.safety.safety_score),
           FloatMul(a.goal.alignment_score, Float_100),
           FloatMax(Float_0_0, FloatMin(Float_100, balance)) >>

\* whole is the integer part of the float x >= 0
IntegerPartOf(whole, x) ==
    /\ whole \in Nat
    /\ FloatLe(FloatOfInt(whole), x)
    /\ FloatLt(x, FloatOfInt(whole + 1))

FivePointsInOrder(view) ==
    /\ Len(view.radar_chart) = 5
    /\ \A i \in 1..5 : /\ view.radar_chart[i].subject = RadarSubjects[i]
                       /\ view.radar_chart[i].fullMark = 100

\* the radar data of every view has the five points in order, and Same(A, x)
\* holds of the value A of each point and the stated value x
RadarPointsAre(views, values, Same(_, _)) ==
    \A out \in views : \A expected \in {values} :
        /\ out.ok
        /\ FivePointsInOrder(out.value)
        /\ \A i \in 1..5 : Same(out.value.radar_chart[i].A, expected[i])

\* C22 as stated: the radar data of the manager view has the five points
\* listening, questioning, safety, alignment, balance in this order, and
\* their values are exactly min(100, member ratio * 100 * 1.5),
\* coaching_score, safety_score, alignment_score * 100 and the clamped
\* balance.
C22_RadarValuesExact ==
    ManagerViews # {} =>
        RadarPointsAre(ManagerViews, RadarValues(probe[1].given),
                       LAMBDA A, x : FloatOfInt(A) = x)

\* C22, amended: the radar data of the manager view has the five points
\* listening, questioning, safety, alignment, balance in this order, and
\* the value of each point is the integer part of the float of the stated
\* expression: the fraction of min(100, member ratio * 100 * 1.5),
\* coaching_score, alignment_score * 100 and the clamped balance is cut off.
C22_RadarValuesTruncated ==
    ManagerViews # {} =>
        RadarPointsAre(ManagerViews, RadarValues(probe[1].given),
                       LAMBDA A, x : IntegerPartOf(A, x))

\* a manager view of an aggregate with the coaching score 85.5, the manager
\* speaking for 0.8 of the time and the alignment score 0.29: the points are
\* 85, 39 (the float of the balance expression is below 40) and 28
C22_Witness ==
    \E out \in ManagerViews :
        /\ out.ok
        /\ probe[1].given.style.coaching_score = Rat(171, 2)
        /\ out.value.radar_chart[2].A = 85
        /\ probe[1].given.speech.manager_speaking_ratio = FloatOfRatio(8, 10)
        /\ out.value.radar_chart[1].A = 30
        /\ out.value.radar_chart[5].A = 39
        /\ probe[1].given.goal.alignment_score = FloatOfRatio(29, 100)
        /\ out.value.radar_chart[4].A = 28

\* the keywords of the matched topics of a goal result
MatchedKeywords(goal) ==
    {goal.matched_topics[i].keyword : i \in DOMAIN goal.matched_topics}

\* the places of the list at which the keyword stands
PlacesOf(word_cloud, kw) ==
    {i \in DOMAIN word_cloud : word_cloud[i].text = kw}

\* the keyword is in the list exactly once, with the weight
OnceWithWeight(word_cloud, kw, weight) ==
    /\ Cardinality(PlacesOf(word_cloud, kw)) = 1
    /\ \A i \in PlacesOf(word_cloud, kw) : word_cloud[i].value = weight

\* C23 as stated: in the weighted keyword list of a member view, before it
\* is cut to 20 entries, every conversation keyword is present, and every
\* matched-topic keyword that is a conversation keyword has weight 80.
C23_EveryConversationKeywordSeeded ==
    \A out \in MemberViews :
        LET goal == probe[1].given.goal
            word_cloud == SortedWordCloud(goal)
        IN  /\ out.ok
            /\ out.value.word_cloud = Take(word_cloud, 20)
            /\ \A k \in DOMAIN goal.conversation_keywords :
                   LET kw == goal.conversation_keywords[k]
                   IN  /\ PlacesOf(word_cloud, kw) # {}
                       /\ kw \in MatchedKeywords(goal)
                              => OnceWithWeight(word_cloud, kw, 80)

\* C23, amended: in the weighted keyword list of a member view, before it is
\* cut to 20 entries, each of the first 15 conversation keywords is present
\* once, with weight 80 if it is a matched topic and 30 otherwise; each
\* matched-topic keyword that is not among the first 15 conversation
\* keywords is present once with weight 60; nothing else is in the list.
C23_FirstFifteenSeeded ==
    \A out \in MemberViews :
        LET goal == probe[1].given.goal
            word_cloud == SortedWordCloud(goal)
            first == {goal.conversation_keywords[k] :
                         k \in 1..Min2(15, Len(goal.conversation_keywords))}
        IN  /\ out.ok
            /\ out.value.word_cloud = Take(word_cloud, 20)
            /\ \A kw \in first :
                   OnceWithWeight(word_cloud, kw,
                                  IF kw \in MatchedKeywords(goal) THEN 80 ELSE 30)
            /\ \A kw \in MatchedKeywords(goal) \ first :
                   OnceWithWeight(word_cloud, kw, 60)
            /\ \A i \in DOMAIN word_cloud :
                   word_cloud[i].text \in first \cup MatchedKeywords(goal)

\* a member view of a goal result with more than 15 conversation keywords of
\* which one among the first 15 and one beyond them is matched, and one
\* beyond the first 15 is not
C23_Witness ==
    \E out \in MemberViews :
        LET goal == probe[1].given.goal
            word_cloud == SortedWordCloud(goal)
        IN  /\ out.ok
            /\ Len(goal.conversation_keywords) > 15
            /\ \E k \in 1..15 :
                   OnceWithWeight(word_cloud, goal.conversation_keywords[k], 80)
            /\ \E k \in 16..Len(goal.conversation_keywords) :
                   OnceWithWeight(word_cloud, goal.conversation_keywords[k], 60)
            /\ \E k \in 16..Len(goal.conversation_keywords) :
                   PlacesOf(word_cloud, goal.conversation_keywords[k]) = {}

\* the weighted keywords of a goal result: the first 15 conversation
\* keywords and the matched topics, each with its weight
WeightedKeywords(goal) ==
    LET first == {goal.conversation_keywords[k] :
                     k \in 1..Min2(15, Len(goal.conversation_keywords))}
    IN  {WordCloudItem(kw, IF kw \in MatchedKeywords(goal) THEN 80 ELSE 30) :
            kw \in first}
        \cup {WordCloudItem(kw, 60) : kw \in MatchedKeywords(goal) \ first}

\* C24: the keyword list of a member view has at most 20 entries, its
\* weights never increase along the list, and no weighted keyword that the
\* list leaves out is heavier than one it keeps.
C24_TopTwentyByWeight ==
    \A out \in MemberViews :
        LET all == WeightedKeywords(probe[1].given.goal)
            word_cloud == out.value.word_cloud
            kept == {word_cloud[i] : i \in DOMAIN word_cloud}
        IN  /\ out.ok
            /\ Len(word_cloud) = Min2(20, Cardinality(all))
            /\ Cardinality(kept) = Len(word_cloud)
            /\ kept \subseteq all
            /\ \A i \in 1..(Len(word_cloud) - 1) :
                   word_cloud[i].value >= word_cloud[i + 1].value
            /\ \A left \in all \ kept : \A item \in kept :
                   left.value <= item.value

\* a member view of 20 entries, of weights 60 and 30, which leaves out two
\* keywords
C24_Witness ==
    \E out \in MemberViews :
        /\ out.ok
        /\ Len(out.value.word_cloud) = 20
        /\ Cardinality(WeightedKeywords(probe[1].given.goal)) = 22
        /\ out.value.word_cloud[1].value = 60
        /\ out.value.word_cloud[20].value = 30

\* one suggestion per missing topic, in the order of the missing topics
TopicSuggestions(goal) ==
    [k \in 1..Len(goal.missing_topics) |-> DiscussFurther(goal.missing_topics[k])]

\* C25 as stated: the action items of a member view are one suggestion per
\* missing topic, in missing-topic order, followed by the closing suggestion
\* to prepare for manager feedback: len(missing_topics) + 1 items for every
\* aggregate.
C25_ClosingSuggestionAlways ==
    \A out \in MemberViews :
        LET goal == probe[1].given.goal
        IN  /\ out.ok
            /\ out.value.action_items
                   = Append(TopicSuggestions(goal), PrepareFeedbackSession)
            /\ Len(out.value.action_items) = Len(goal.missing_topics) + 1

\* C25, amended: the action items of a member view are one suggestion per
\* missing topic, in missing-topic order, followed by the closing suggestion
\* to prepare for manager feedback exactly when the improvement feedback of
\* the style result is not empty: len(missing_topics) + 1 items then, and
\* len(missing_topics) items when the feedback is empty.
C25_ClosingSuggestionWithFeedback ==
    \A out \in MemberViews :
        LET goal == probe[1].given.goal
            feedback == probe[1].given.style.improvement_feedback
        IN  /\ out.ok
            /\ feedback # ""
                   => /\ out.value.action_items
                             = Append(TopicSuggestions(goal), PrepareFeedbackSession)
                      /\ Len(out.value.action_items) = Len(goal.missing_topics) + 1
            /\ feedback = ""
                   => /\ out.value.action_items = TopicSuggestions(goal)
                      /\ Len(out.value.action_items) = Len(goal.missing_topics)

\* a member view of five missing topics and empty feedback with five action
\* items, none of them the closing suggestion
C25_Witness ==
    \E out \in MemberViews :
        /\ out.ok
        /\ probe[1].given.style.improvement_feedback = ""
        /\ Len(probe[1].given.goal.missing_topics) = 5
        /\ Len(out.value.action_items) = 5
        /\ \A i \in 1..5 : out.value.action_items[i] # PrepareFeedbackSession
        /\ out.value.action_items[2]
               = DiscussFurther(probe[1].given.goal.missing_topics[2])

\* C26: however often and in whatever order the two projections of an
\* aggregate are called, every call of format_manager_report returns the
\* same view, every call of format_member_report returns the same view, and
\* the four calculator results are after every call what they were before
\* the first.  Each call projects the results as the calls before it left
\* them: probe[1].aggregate holds the objects the statements of the calls
\* wrote to, probe[1].given the results as they were passed first.
C26_ProjectionIsPure ==
    FormatCalls =>
        /\ Cardinality(ManagerViews) <= 1
        /\ Cardinality(MemberViews) <= 1
        /\ \A out \in ManagerViews \cup MemberViews : out.ok
        /\ probe[1].aggregate = probe[1].given

\* the member view, then the manager view, then the member view again of an
\* aggregate with more than 15 conversation keywords and a matched topic:
\* the list was sliced and an item boosted, and the results are unchanged
C26_Witness ==
    /\ FormatCalls
    /\ Len(probe[1].calls) = 3
    /\ probe[1].calls[1].report = "member"
    /\ probe[1].calls[2].report = "manager"
    /\ probe[1].calls[3].report = "member"
    /\ probe[1].calls[1].outcome = probe[1].calls[3].outcome
    /\ Len(probe[1].given.goal.conversation_keywords) > 15
    /\ probe[1].calls[3].outcome.value.word_cloud[1].value = 80
    /\ probe[1].aggregate.goal.conversation_keywords
           = probe[1].given.goal.conversation_keywords

(***************************************************************************)
(* Properties of the keyword extraction                                    *)
(***************************************************************************)
\* the words of a text: the runs of Hangul syllables or of Latin letters of
\* the lower-cased text
TokensOf(text) == FindAllWords(Lower(text))

FrequencyIn(tokens, word) == Cardinality({i \in DOMAIN tokens : tokens[i] = word})

FirstPlaceIn(tokens, word) ==
    CHOOSE i \in DOMAIN tokens :
        tokens[i] = word /\ \A j \in DOMAIN tokens : tokens[j] = word => i <= j

\* the keywords are an extraction from the text as C27 describes it
ExtractedFrom(keywords, text) ==
    LET tokens == CHOOSE t \in {TokensOf(text)} : TRUE
        eligible == {tokens[i] : i \in {k \in DOMAIN tokens :
                                           /\ Len(tokens[k]) >= 2
                                           /\ tokens[k] \notin stop_words}}
        listed == {keywords[i] : i \in DOMAIN keywords}
    IN  /\ Len(keywords) = Min2(30, Cardinality(eligible))
        /\ Cardinality(listed) = Len(keywords)
        /\ listed \subseteq eligible
        /\ \A i, j \in DOMAIN keywords :
               i < j =>
                   LET fi == FrequencyIn(tokens, keywords[i])
                       fj == FrequencyIn(tokens, keywords[j])
                   IN  \/ fi > fj
                       \/ /\ fi = fj
                          /\ FirstPlaceIn(tokens, keywords[i])
                                 < FirstPlaceIn(tokens, keywords[j])
        /\ \A left \in eligible \ listed : \A kept \in listed :
               FrequencyIn(tokens, left) <= FrequencyIn(tokens, kept)

\* C27: the keywords extracted from a text are at most 30 different words
\* of the text, each of at least two characters and none a stop word, in
\* the order of non-increasing frequency, words of equal frequency in the
\* order of their first occurrence; no word left out is more frequent than
\* one returned.
C27_KeywordsByFrequency ==
    GoalReturned =>
        /\ ExtractedFrom(probe[1].outcome[1].value.goal_keywords,
                         probe[1].data.goal_text)
        /\ ExtractedFrom(probe[1].outcome[1].value.conversation_keywords,
                         probe[1].data.conversation_transcript)

\* a conversation of 32 different eligible words, the last of them twice and
\* first among the 30 keywords, the thirtieth and thirty-first word left
\* out, and the one-letter word not a keyword
C27_Witness ==
    /\ GoalReturned
    /\ probe[1].data.conversation_transcript = TalkManyKeywords
    /\ Len(probe[1].outcome[1].value.conversation_keywords) = 30
    /\ probe[1].outcome[1].value.conversation_keywords[1] = GoalOnlyKeyword(6)
    /\ probe[1].outcome[1].value.conversation_keywords[2] = ConversationKeyword(1)
    /\ probe[1].outcome[1].value.conversation_keywords[30] = GoalOnlyKeyword(3)
    /\ \A i \in 1..30 :
           probe[1].outcome[1].value.conversation_keywords[i]
               \notin {<<"x">>, GoalOnlyKeyword(4), GoalOnlyKeyword(5)}

(***************************************************************************)
(* The error of a run with several failed calculators                      *)
(***************************************************************************)
\* the failed calculator of a run that stands first in the order of the
\* gather call: timing, alignment, style, safety
FirstFailed(run) ==
    CalcOrder[CHOOSE i \in 1..Len(CalcOrder) :
                  /\ CalcOrder[i] \in FailedCalcs(run)
                  /\ \A j \in 1..(i - 1) : CalcOrder[j] \notin FailedCalcs(run)]

\* C28: a run in which calculators failed raises the error of the failed
\* calculator that is first in the order timing, alignment, style, safety,
\* whichever of them finished first; two runs whose calculators ended alike
\* raise the same error.
C28_ErrorOfFirstInFixedOrder ==
    /\ \A r \in Requests :
          LET run == runs[r]
          IN  (AnalyzeResponded(run) /\ Gathered(run) /\ FailedCalcs(run) # {}) =>
                  run.outcome
                      = Some(Raised(run.results[FirstFailed(run)][1].error))
    /\ \A r, q \in Requests :
          (/\ AnalyzeResponded(runs[r]) /\ AnalyzeResponded(runs[q])
           /\ Gathered(runs[r]) /\ Gathered(runs[q])
           /\ FailedCalcs(runs[r]) # {}
           /\ runs[r].results = runs[q].results) =>
              runs[r].outcome = runs[q].outcome

\* the style and the safety calculator of two runs failed with different
\* errors, the safety calculator first in one run and last in the other, and
\* both runs raised the style calculator's error
C28_Witness ==
    \E r, q \in Requests :
        /\ AnalyzeResponded(runs[r]) /\ AnalyzeResponded(runs[q])
        /\ FailedCalcs(runs[r]) = {"coaching", "safety"}
        /\ runs[r].results = runs[q].results
        /\ runs[r].results["coaching"][1].error
               # runs[r].results["safety"][1].error
        /\ runs[r].completed = <<"speech", "goal", "safety", "coaching">>
        /\ runs[q].completed = <<"speech", "goal", "coaching", "safety">>
        /\ runs[r].outcome = Some(Raised(runs[r].results["coaching"][1].error))
        /\ runs[q].outcome = runs[r].outcome

(***************************************************************************)
(* Further properties of SpeechAnalyzer                                    *)
(***************************************************************************)
\* C29: for every validated transcription without a total_duration the
\* meeting duration is the end_time of the last segment in start_time order,
\* total_silence_time is at most that duration, and silence_percentage lies
\* between 0 and 100, overlapping and nested segments included.
C29_SilenceWithinMeeting ==
    (SpeechDone /\ ~InvalidTranscript(probe[1].data)
        /\ probe[1].data.total_duration = None) =>
        /\ probe[1].outcome[1].ok
        /\ LET result == probe[1].outcome[1].value
               ordered == InStartOrder(probe[1].data.segments)
           IN  /\ result.meeting_duration = Seconds(ordered[Len(ordered)].end_time)
               /\ FloatGe(result.total_silence_time, Float_0_0)
               /\ FloatLe(result.total_silence_time, result.meeting_duration)
               /\ FloatGe(result.silence_percentage, Float_0_0)
               /\ FloatLe(result.silence_percentage, Float_100)

\* three segments of no length at 0.0, 0.3 and 0.9 s have been analysed
\* without a total_duration: the silence of the result is above the meeting
\* duration of 0.9 s, and the percentage above 100
C29_Witness ==
    /\ SpeechDone
    /\ probe[1].data = PausesTranscription
    /\ probe[1].outcome[1].ok
    /\ probe[1].outcome[1].value.meeting_duration = Seconds(9)
    /\ FloatGt(probe[1].outcome[1].value.total_silence_time, Seconds(9))
    /\ FloatGt(probe[1].outcome[1].value.silence_percentage, Float_100)

\* the rearrangements of a sequence
Rearrangements(s) ==
    {[i \in 1..Len(s) |-> s[f[i]]] :
        f \in {g \in [1..Len(s) -> 1..Len(s)] :
                  \A i, j \in 1..Len(s) : g[i] = g[j] => i = j}}

DistinctStarts(segments) ==
    \A i, j \in 1..Len(segments) :
        segments[i].start_time = segments[j].start_time => i = j

\* C30: for every validated transcription whose segments start at pairwise
\* different times, the result of calculate is the result for every
\* rearrangement of the segment list, and after the call the segment list
\* given is in the order in which it was given.
C30_OrderOfInputIrrelevant ==
    SpeechDone =>
        /\ probe[1].data = probe[1].given
        /\ (~InvalidTranscript(probe[1].given)
               /\ DistinctStarts(probe[1].given.segments)) =>
               /\ probe[1].outcome[1].ok
               /\ \A segments \in Rearrangements(probe[1].given.segments) :
                      SpeechAnalyzer_calculate(
                          [probe[1].given EXCEPT !.segments = segments])
                          = probe[1].outcome[1]

\* a transcription given with a later segment first has been analysed: the
\* result is that of the chronological list, with the pause between the two
\* segments as silence, and the list given still has the later segment first
C30_Witness ==
    /\ SpeechDone
    /\ probe[1].outcome[1].ok
    /\ Len(probe[1].given.segments) = 2
    /\ probe[1].given.segments[1].start_time > probe[1].given.segments[2].start_time
    /\ probe[1].data.segments = probe[1].given.segments
    /\ probe[1].outcome[1].value.total_silence_time = Seconds(10)
    /\ probe[1].outcome[1].value.meeting_duration
           = Seconds(probe[1].given.segments[1].end_time)
    /\ probe[1].given.total_duration = None

=============================================================================
